---------------------------- MODULE Spec2Model ----------------------------
(***************************************************************************)
(* A model of the Arrow IPC reader of arrow-rs (arrow/src/ipc/reader.rs):  *)
(* the array reconstruction walk (create_array / skip_field /              *)
(* read_record_batch / read_dictionary), the StreamReader and the          *)
(* FileReader.                                                             *)
(*                                                                         *)
(* Conventions.  Cursors and indices are 0-based as in the Rust source; a  *)
(* TLA+ sequence s is read at s[i + 1].  An Option is a sequence of length *)
(* at most one.  A call ends in one of three ways: "Ok" (a value), "Err"   *)
(* (an ArrowError returned through Result) or "Panic" (an out-of-range     *)
(* index or slice, which unwinds instead of returning).                    *)
(***************************************************************************)
EXTENDS Integers, Sequences, FiniteSets, TLC

VARIABLES
    mode,        \* which component this behaviour exercises
    schema,      \* the schema handed to read_record_batch / held by a reader
    version,     \* metadata version of the batch message
    dicts,       \* dictionaries_by_id
    batch,       \* the record-batch descriptor (length, nodes, buffers)
    body,        \* the message body the buffer descriptors point into
    projection,  \* Option<Vec<usize>> of the last projected read
    full,        \* result of read_record_batch without projection
    proj,        \* result of read_record_batch with `projection`
    phase,       \* position of the caller / life cycle of the reader
    source,      \* the bytes of the stream or file behind the reader
    pos,         \* read position of the reader in `source`
    finished,    \* StreamReader::finished
    result,      \* what the last call of next() returned
    calls,       \* number of next() calls made so far
    wire,        \* history: the messages the writer put into `source`
    h_finished,  \* history: `finished` at entry of the last next() call
    blocks,            \* FileReader::blocks
    current_block,     \* FileReader::current_block
    total_blocks,      \* FileReader::total_blocks
    metadata_version,  \* FileReader::metadata_version
    h_op,        \* history: the last operation called on the FileReader
    op1,         \* self of the last call on a Bitmap
    op2,         \* rhs / other of the last call on a Bitmap
    arg,         \* the index, offset or size handed to the last call
    arg2,        \* the length handed to the last call, where it takes one
    out          \* what the last call returned

batch_vars == <<schema, version, dicts, batch, body, projection, full, proj>>
stream_vars == <<source, pos, finished, result, calls, wire, h_finished>>
file_vars == <<blocks, current_block, total_blocks, metadata_version, h_op>>
pure_vars == <<op1, op2, arg, arg2, out>>
vars == <<mode, phase, batch_vars, stream_vars, file_vars, pure_vars>>

(***************************************************************************)
(* Bounds of the model.                                                    *)
(***************************************************************************)
MaxFields == 2        \* top-level fields of a schema
MaxNodes == 6         \* field nodes of a descriptor
MaxBuffers == 12      \* buffer descriptors of a descriptor
MaxProjection == 2    \* indices of a projection list
MaxMsgs == 4          \* messages of a stream after its schema message
MaxCalls == 4         \* calls of next() on one reader
MaxDamagedMsgs == 2   \* messages of a damaged stream after its schema message
MaxShortMsgs == 2     \* messages of a short stream after its schema message
MaxShortBlocks == 3   \* blocks of a short file
MaxBlocks == 2        \* record-batch blocks of a file
MaxDictBlocks == 2    \* dictionary blocks of a file
MaxSeeks == 1         \* calls of set_index() on one reader

(***************************************************************************)
(* Data types and fields.                                                  *)
(***************************************************************************)
V1 == 1
V4 == 4
V5 == 5

DT(kind, umode, children) == [kind |-> kind, umode |-> umode, children |-> children]

Field(name, data_type, dict_id) ==
    [name |-> name, data_type |-> data_type, dict_id |-> dict_id]

Int64T == DT("Int64", "", <<>>)
Utf8T == DT("Utf8", "", <<>>)
NullT == DT("Null", "", <<>>)
ListT(f) == DT("List", "", <<f>>)
FixedSizeListT(f) == DT("FixedSizeList", "", <<f>>)
StructT(fs) == DT("Struct", "", fs)
DictionaryT(value_field) == DT("Dictionary", "", <<value_field>>)
UnionT(fs, umode) == DT("Union", umode, fs)

\* Field::dict_id: Some(id) for a dictionary-typed field, None otherwise.
dict_id_of(field) ==
    IF field.data_type.kind = "Dictionary" THEN <<field.dict_id>> ELSE <<>>

(***************************************************************************)
(* Arrays and call results.                                                *)
(***************************************************************************)
ArrayData(data_type, len, buffers, nulls, child_data) ==
    [data_type |-> data_type, len |-> len, buffers |-> buffers,
     nulls |-> nulls, child_data |-> child_data]

NoArray == ArrayData(NullT, 0, <<>>, <<>>, <<>>)

Ok3(array, node_index, buffer_index) ==
    [st |-> "Ok", array |-> array, node_index |-> node_index,
     buffer_index |-> buffer_index, msg |-> ""]
Err3(msg) ==
    [st |-> "Err", array |-> NoArray, node_index |-> 0, buffer_index |-> 0, msg |-> msg]
Panic3 ==
    [st |-> "Panic", array |-> NoArray, node_index |-> 0, buffer_index |-> 0, msg |-> ""]

\* (null_count > 0).then(|| buffers[0].clone())
MutValidityAlwaysKept(null_count, buf) == <<buf>>
null_bit_buffer(null_count, buf) == IF null_count > 0 THEN <<buf>> ELSE <<>>

(***************************************************************************)
(* read_buffer: the slice a_data[offset .. offset + length]; the slice     *)
(* panics when it does not lie inside a_data.                              *)
(***************************************************************************)
read_buffer_ok(buf, a_data) ==
    /\ buf.offset >= 0
    /\ buf.length >= 0
    /\ buf.offset + buf.length <= Len(a_data)

read_buffer(buf, a_data) ==
    SubSeq(a_data, buf.offset + 1, buf.offset + buf.length)

\* buffers[from .. from + count].iter().map(|buf| read_buffer(buf, data)):
\* the slice of the descriptor list panics when it is too short.
read_buffers_ok(buffers, from, count, data) ==
    /\ from + count <= Len(buffers)
    /\ \A k \in 1..count : read_buffer_ok(buffers[from + k], data)

read_buffers(buffers, from, count, data) ==
    [k \in 1..count |-> read_buffer(buffers[from + k], data)]

(***************************************************************************)
(* Columns of a narrow type in a values buffer of 64-bit elements.         *)
(* Buffers are sequences of bytes; an element of a primitive array is the  *)
(* little-endian group of bytes at its index (index from 0).               *)
(***************************************************************************)
NarrowIntKinds ==
    {"Int8", "Int16", "Int32", "UInt8", "UInt16", "UInt32",
     "Time32", "Date32", "IntervalYearMonth"}

UnsignedKinds == {"UInt8", "UInt16", "UInt32"}

byte_width(kind) ==
    CASE kind \in {"Int8", "UInt8"} -> 1
      [] kind \in {"Int16", "UInt16"} -> 2
      [] kind \in {"Int64", "Float64"} -> 8
      [] OTHER -> 4

element(buffer, width, k) == SubSeq(buffer, k * width + 1, (k + 1) * width)

\* The validity bit of element k; an array without a validity buffer has
\* no nulls.  The validity buffer is taken to cover the array.
bit_at(bytes, k) == (bytes[(k \div 8) + 1] \div (2 ^ (k % 8))) % 2 = 1

is_valid(nulls, k) == nulls = <<>> \/ bit_at(nulls[1], k)

RECURSIVE pack_bits(_, _, _)
pack_bits(valid, from, count) ==
    IF count = 0 THEN 0
    ELSE (IF from + count - 1 \in DOMAIN valid /\ valid[from + count - 1]
          THEN 2 ^ (count - 1) ELSE 0)
         + pack_bits(valid, from, count - 1)

\* The 64-bit integer of the group has a value of the narrow type: the bytes
\* above the narrow width only extend its sign (signed) or are zero.
int_fits(group, kind) ==
    LET w == byte_width(kind) IN
    IF kind \in UnsignedKinds
    THEN \A j \in (w + 1)..8 : group[j] = 0
    ELSE \A j \in (w + 1)..8 : group[j] = (IF group[w] >= 128 THEN 255 ELSE 0)

\* f64 as f32, for the values that f32 holds exactly (zero and the normal
\* numbers whose low 29 mantissa bits are zero): sign, exponent rebased from
\* 1023 to 127, the top 23 bits of the mantissa.
f64_to_f32(group) ==
    LET sign == group[8] \div 128
        exp11 == (group[8] % 128) * 16 + group[7] \div 16
        exp8 == IF exp11 = 0 THEN 0 ELSE exp11 - 896
        mantissa == (group[7] % 16) * (2 ^ 19) + group[6] * (2 ^ 11)
                    + group[5] * 8 + group[4] \div 32
    IN  << mantissa % 256,
           (mantissa \div 256) % 256,
           (exp8 % 2) * 128 + mantissa \div (2 ^ 16),
           sign * 128 + exp8 \div 2 >>

\* cast(&values, data_type) of an Int64 or Float64 array to a narrow type,
\* with the default options: an integer outside the narrow type becomes
\* null, and a null slot holds zero.
cast_value(group, kind) ==
    IF kind = "Float32" THEN f64_to_f32(group)
    ELSE IF int_fits(group, kind) THEN SubSeq(group, 1, byte_width(kind))
    ELSE [j \in 1..byte_width(kind) |-> 0]

cast(values, to_type) ==
    LET w == byte_width(to_type.kind)
        n == values.len
        wide == values.buffers[1]
        valid == [k \in 1..n |->
                    /\ is_valid(values.nulls, k - 1)
                    /\ \/ to_type.kind = "Float32"
                       \/ int_fits(element(wide, 8, k - 1), to_type.kind)]
        narrow == [j \in 1..(n * w) |->
                     IF valid[((j - 1) \div w) + 1]
                     THEN cast_value(element(wide, 8, (j - 1) \div w),
                                     to_type.kind)[((j - 1) % w) + 1]
                     ELSE 0]
    IN  ArrayData(to_type, n, <<narrow>>,
                  IF \A k \in 1..n : valid[k] THEN <<>>
                  ELSE << [b \in 1..((n + 7) \div 8) |->
                             pack_bits(valid, 8 * (b - 1) + 1, 8)] >>,
                  <<>>)

\* buffers[1].len() / 8 == length && length != 1
MutWideAtLengthOne(field_node, data_type, bufs, wide_type) ==
    IF Len(bufs[2]) \div 8 = field_node.length
    THEN cast(ArrayData(wide_type, field_node.length, Tail(bufs),
                        null_bit_buffer(field_node.null_count, bufs[1]), <<>>),
              data_type)
    ELSE ArrayData(data_type, field_node.length, Tail(bufs),
                   null_bit_buffer(field_node.null_count, bufs[1]), <<>>)
narrow_array(field_node, data_type, bufs, wide_type) ==
    IF Len(bufs[2]) \div 8 = field_node.length /\ field_node.length # 1
    THEN \* interpret as a signed i64 (an f64), and cast appropriately
         cast(ArrayData(wide_type, field_node.length, Tail(bufs),
                        null_bit_buffer(field_node.null_count, bufs[1]), <<>>),
              data_type)
    ELSE ArrayData(data_type, field_node.length, Tail(bufs),
                   null_bit_buffer(field_node.null_count, bufs[1]), <<>>)

(***************************************************************************)
(* create_primitive_array, create_list_array, create_dictionary_array.     *)
(* ArrayData::build / build_unchecked are taken to succeed: the validation *)
(* of buffer contents is not part of reader.rs.                            *)
(***************************************************************************)
create_primitive_array(field_node, data_type, bufs) ==
    CASE data_type.kind \in {"Utf8", "Binary", "LargeBinary", "LargeUtf8"} ->
            ArrayData(data_type, field_node.length, SubSeq(bufs, 2, 3),
                      null_bit_buffer(field_node.null_count, bufs[1]), <<>>)
      [] data_type.kind = "FixedSizeBinary" ->
            ArrayData(data_type, field_node.length, SubSeq(bufs, 2, 2),
                      null_bit_buffer(field_node.null_count, bufs[1]), <<>>)
      [] data_type.kind \in NarrowIntKinds ->
            narrow_array(field_node, data_type, bufs, Int64T)
      [] data_type.kind = "Float32" ->
            narrow_array(field_node, data_type, bufs, DT("Float64", "", <<>>))
      [] OTHER ->
            \* Boolean | Int64 | UInt64 | Float64 | ... : buffers[1..]
            ArrayData(data_type, field_node.length, Tail(bufs),
                      null_bit_buffer(field_node.null_count, bufs[1]), <<>>)

create_list_array(field_node, data_type, bufs, child_array) ==
    IF data_type.kind = "FixedSizeList"
    THEN ArrayData(data_type, field_node.length, <<>>,
                   null_bit_buffer(field_node.null_count, bufs[1]), <<child_array>>)
    ELSE \* List | LargeList | Map : buffers[1..2]
         ArrayData(data_type, field_node.length, SubSeq(bufs, 2, 2),
                   null_bit_buffer(field_node.null_count, bufs[1]), <<child_array>>)

create_dictionary_array(field_node, data_type, bufs, value_array) ==
    ArrayData(data_type, field_node.length, SubSeq(bufs, 2, 2),
              null_bit_buffer(field_node.null_count, bufs[1]), <<value_array>>)

\* StructArray::from: with the validity buffer when null_count > 0.
struct_array(data_type, struct_node, null_buffer, struct_arrays) ==
    ArrayData(data_type,
              IF struct_arrays = <<>> THEN 0 ELSE struct_arrays[1].len,
              <<>>,
              null_bit_buffer(struct_node.null_count, null_buffer),
              struct_arrays)

\* UnionArray::try_new(field_type_ids, type_ids, value_offsets, children)
union_array(data_type, type_ids, value_offsets, children) ==
    ArrayData(data_type, Len(type_ids), <<type_ids>> \o value_offsets, <<>>, children)

(***************************************************************************)
(* create_array: the type-directed walk.  It returns the array and the     *)
(* advanced (node_index, buffer_index), an error, or panics.               *)
(***************************************************************************)
RECURSIVE create_array(_, _, _, _, _, _, _, _)
RECURSIVE create_children(_, _, _, _, _, _, _, _, _)

\* for field in fields { let triple = create_array(..)?; ...; push(triple.0) }
create_children(nodes, fields, data, buffers, dictionaries_by_id, node_index, buffer_index, metadata, acc) ==
    IF fields = <<>>
    THEN [st |-> "Ok", arrays |-> acc, node_index |-> node_index,
          buffer_index |-> buffer_index, msg |-> ""]
    ELSE LET triple == create_array(nodes, Head(fields), data, buffers,
                                    dictionaries_by_id, node_index, buffer_index,
                                    metadata)
         IN  IF triple.st # "Ok"
             THEN [st |-> triple.st, arrays |-> <<>>, node_index |-> 0,
                   buffer_index |-> 0, msg |-> triple.msg]
             ELSE create_children(nodes, Tail(fields), data, buffers,
                                  dictionaries_by_id, triple.node_index,
                                  triple.buffer_index, metadata,
                                  Append(acc, triple.array))

\* create_array_leaf advancing buffer_index by 2 whatever the type
MutLeafAdvancesTwo(nodes, field, data, buffers, node_index, buffer_index, count) == IF node_index >= Len(nodes) \/ ~read_buffers_ok(buffers, buffer_index, count, data) THEN Panic3 ELSE Ok3(create_primitive_array(nodes[node_index + 1], field.data_type, read_buffers(buffers, buffer_index, count, data)), node_index + 1, buffer_index + 2)

\* Utf8 | Binary | LargeBinary | LargeUtf8 (3 buffers), FixedSizeBinary and
\* the `_` arm (2 buffers)
create_array_leaf(nodes, field, data, buffers, node_index, buffer_index, count) ==
    IF node_index >= Len(nodes) THEN Panic3
    ELSE IF ~read_buffers_ok(buffers, buffer_index, count, data) THEN Panic3
    ELSE Ok3(create_primitive_array(nodes[node_index + 1], field.data_type,
                                    read_buffers(buffers, buffer_index, count, data)),
             node_index + 1, buffer_index + count)

\* List | LargeList | Map (2 buffers), FixedSizeList (1 buffer)
create_array_list(nodes, field, data, buffers, dictionaries_by_id, node_index, buffer_index, metadata, count) ==
    IF node_index >= Len(nodes) THEN Panic3
    ELSE IF ~read_buffers_ok(buffers, buffer_index, count, data) THEN Panic3
    ELSE LET list_node == nodes[node_index + 1]
             list_buffers == read_buffers(buffers, buffer_index, count, data)
             triple == create_array(nodes, field.data_type.children[1], data,
                                    buffers, dictionaries_by_id, node_index + 1,
                                    buffer_index + count, metadata)
         IN  IF triple.st # "Ok" THEN triple
             ELSE Ok3(create_list_array(list_node, field.data_type, list_buffers,
                                        triple.array),
                      triple.node_index, triple.buffer_index)

create_array_struct(nodes, field, data, buffers, dictionaries_by_id, node_index, buffer_index, metadata) ==
    IF node_index >= Len(nodes) THEN Panic3
    ELSE IF ~read_buffers_ok(buffers, buffer_index, 1, data) THEN Panic3
    ELSE LET struct_node == nodes[node_index + 1]
             null_buffer == read_buffer(buffers[buffer_index + 1], data)
             loop == create_children(nodes, field.data_type.children, data, buffers,
                                     dictionaries_by_id, node_index + 1,
                                     buffer_index + 1, metadata, <<>>)
         IN  IF loop.st = "Panic" THEN Panic3
             ELSE IF loop.st = "Err" THEN Err3(loop.msg)
             ELSE Ok3(struct_array(field.data_type, struct_node, null_buffer,
                                   loop.arrays),
                      loop.node_index, loop.buffer_index)

create_array_dictionary(nodes, field, data, buffers, dictionaries_by_id, node_index, buffer_index) ==
    IF node_index >= Len(nodes) THEN Panic3
    ELSE IF ~read_buffers_ok(buffers, buffer_index, 2, data) THEN Panic3
    ELSE IF dict_id_of(field) = <<>> THEN Err3("Field does not have dict id")
    ELSE IF dict_id_of(field)[1] \notin DOMAIN dictionaries_by_id
         THEN Err3("Cannot find a dictionary batch with dict id")
    ELSE Ok3(create_dictionary_array(nodes[node_index + 1], field.data_type,
                                     read_buffers(buffers, buffer_index, 2, data),
                                     dictionaries_by_id[dict_id_of(field)[1]]),
             node_index + 1, buffer_index + 2)

create_array_union(nodes, field, data, buffers, dictionaries_by_id, node_index, buffer_index, metadata) ==
    IF node_index >= Len(nodes) THEN Panic3
    ELSE
    LET union_node == nodes[node_index + 1]
        len == union_node.length
        \* In V4, union types has validity bitmap
        legacy == IF metadata < V5 THEN 1 ELSE 0
        dense == IF field.data_type.umode = "Dense" THEN 1 ELSE 0
        ids_at == buffer_index + legacy
        after == ids_at + 1 + dense
    IN  IF legacy = 1 /\ ~read_buffers_ok(buffers, buffer_index, 1, data) THEN Panic3
        ELSE IF ~read_buffers_ok(buffers, ids_at, 1, data) THEN Panic3
        ELSE IF Len(read_buffer(buffers[ids_at + 1], data)) < len THEN Panic3
        ELSE IF dense = 1 /\ ~read_buffers_ok(buffers, ids_at + 1, 1, data) THEN Panic3
        ELSE IF dense = 1 /\ Len(read_buffer(buffers[ids_at + 2], data)) < len * 4
             THEN Panic3
        ELSE LET type_ids == SubSeq(read_buffer(buffers[ids_at + 1], data), 1, len)
                 value_offsets ==
                     IF dense = 1
                     THEN <<SubSeq(read_buffer(buffers[ids_at + 2], data), 1, len * 4)>>
                     ELSE <<>>
                 loop == create_children(nodes, field.data_type.children, data,
                                         buffers, dictionaries_by_id, node_index + 1,
                                         after, metadata, <<>>)
             IN  IF loop.st = "Panic" THEN Panic3
                 ELSE IF loop.st = "Err" THEN Err3(loop.msg)
                 ELSE Ok3(union_array(field.data_type, type_ids, value_offsets,
                                      loop.arrays),
                          loop.node_index, loop.buffer_index)

create_array_null(nodes, field, node_index, buffer_index) ==
    IF node_index >= Len(nodes) THEN Panic3
    ELSE IF nodes[node_index + 1].length # nodes[node_index + 1].null_count
         THEN Err3("NullArray has unequal null_count and len")
    ELSE Ok3(ArrayData(field.data_type, nodes[node_index + 1].length, <<>>, <<>>, <<>>),
             node_index + 1, buffer_index)

create_array(nodes, field, data, buffers, dictionaries_by_id, node_index, buffer_index, metadata) ==
    LET kind == field.data_type.kind
    IN  CASE kind \in {"Utf8", "Binary", "LargeBinary", "LargeUtf8"} ->
                create_array_leaf(nodes, field, data, buffers, node_index,
                                  buffer_index, 3)
          [] kind = "FixedSizeBinary" ->
                create_array_leaf(nodes, field, data, buffers, node_index,
                                  buffer_index, 2)
          [] kind \in {"List", "LargeList", "Map"} ->
                create_array_list(nodes, field, data, buffers, dictionaries_by_id,
                                  node_index, buffer_index, metadata, 2)
          [] kind = "FixedSizeList" ->
                create_array_list(nodes, field, data, buffers, dictionaries_by_id,
                                  node_index, buffer_index, metadata, 1)
          [] kind = "Struct" ->
                create_array_struct(nodes, field, data, buffers, dictionaries_by_id,
                                    node_index, buffer_index, metadata)
          [] kind = "Dictionary" ->
                create_array_dictionary(nodes, field, data, buffers,
                                        dictionaries_by_id, node_index, buffer_index)
          [] kind = "Union" ->
                create_array_union(nodes, field, data, buffers, dictionaries_by_id,
                                   node_index, buffer_index, metadata)
          [] kind = "Null" ->
                create_array_null(nodes, field, node_index, buffer_index)
          [] OTHER ->
                create_array_leaf(nodes, field, data, buffers, node_index,
                                  buffer_index, 2)

(***************************************************************************)
(* skip_field: advances the cursors for a field that is not projected.     *)
(* It reads neither the node list nor the buffers, and takes no metadata   *)
(* version.                                                                *)
(***************************************************************************)
RECURSIVE skip_field(_, _, _, _, _, _, _)
RECURSIVE skip_children(_, _, _, _, _, _, _)

\* for struct_field in struct_fields { let tuple = skip_field(..)?; ... }
skip_children(nodes, fields, data, buffers, dictionaries_by_id, node_index, buffer_index) ==
    IF fields = <<>>
    THEN [node_index |-> node_index, buffer_index |-> buffer_index]
    ELSE LET tuple == skip_field(nodes, Head(fields), data, buffers,
                                 dictionaries_by_id, node_index, buffer_index)
         IN  skip_children(nodes, Tail(fields), data, buffers, dictionaries_by_id,
                           tuple.node_index, tuple.buffer_index)

skip_field(nodes, field, data, buffers, dictionaries_by_id, node_index, buffer_index) ==
    LET kind == field.data_type.kind
        children == field.data_type.children
    IN  CASE kind \in {"Utf8", "Binary", "LargeBinary", "LargeUtf8"} ->
                [node_index |-> node_index + 1, buffer_index |-> buffer_index + 3]
          [] kind = "FixedSizeBinary" ->
                [node_index |-> node_index + 1, buffer_index |-> buffer_index + 2]
          [] kind \in {"List", "LargeList", "Map"} ->
                skip_field(nodes, children[1], data, buffers, dictionaries_by_id,
                           node_index + 1, buffer_index + 2)
          [] kind = "FixedSizeList" ->
                skip_field(nodes, children[1], data, buffers, dictionaries_by_id,
                           node_index + 1, buffer_index + 1)
          [] kind = "Struct" ->
                skip_children(nodes, children, data, buffers, dictionaries_by_id,
                              node_index + 1, buffer_index + 1)
          [] kind = "Dictionary" ->
                [node_index |-> node_index + 1, buffer_index |-> buffer_index + 2]
          [] kind = "Union" ->
                skip_children(nodes, children, data, buffers, dictionaries_by_id,
                              node_index + 1,
                              buffer_index + 1
                                  + (IF field.data_type.umode = "Dense" THEN 1 ELSE 0))
          [] kind = "Null" ->
                [node_index |-> node_index + 1, buffer_index |-> buffer_index]
          [] OTHER ->
                [node_index |-> node_index + 1, buffer_index |-> buffer_index + 2]

(***************************************************************************)
(* Schema::project and RecordBatch::try_new_with_options live in           *)
(* datatypes/schema.rs and record_batch.rs.                                *)
(***************************************************************************)
OkBatch(sch, columns, row_count) ==
    [st |-> "Ok", schema |-> sch, columns |-> columns, row_count |-> row_count,
     msg |-> ""]
ErrBatch(msg) ==
    [st |-> "Err", schema |-> <<>>, columns |-> <<>>, row_count |-> 0, msg |-> msg]
PanicBatch ==
    [st |-> "Panic", schema |-> <<>>, columns |-> <<>>, row_count |-> 0, msg |-> ""]
NoBatch ==
    [st |-> "None", schema |-> <<>>, columns |-> <<>>, row_count |-> 0, msg |-> ""]

\* Schema::project(indices): the fields at `indices`, in the order of `indices`;
\* an error when an index is out of range.
project_ok(sch, indices) == \A k \in 1..Len(indices) : indices[k] < Len(sch)

project(sch, indices) == [k \in 1..Len(indices) |-> sch[indices[k] + 1]]

\* RecordBatch::try_new_with_options: one column per field, every column of
\* the field's data type and of row_count rows.
try_new_with_options(sch, columns, row_count) ==
    IF Len(sch) # Len(columns)
    THEN ErrBatch("number of columns must match number of fields in schema")
    ELSE IF \E k \in 1..Len(columns) : columns[k].len # row_count
    THEN ErrBatch("all columns in a record batch must have the specified row count")
    ELSE IF \E k \in 1..Len(columns) : columns[k].data_type # sch[k].data_type
    THEN ErrBatch("column types must match schema types")
    ELSE OkBatch(sch, columns, row_count)

(***************************************************************************)
(* read_record_batch                                                       *)
(***************************************************************************)
RECURSIVE read_fields(_, _, _, _, _, _, _, _, _, _)

\* The loop over schema.fields().iter().enumerate().  `selected` is the
\* projection (an Option); without one every field is decoded.
read_fields(fields, idx, buf, rb, dictionaries_by_id, selected, metadata, node_index, buffer_index, arrays) ==
    IF idx >= Len(fields)
    THEN [st |-> "Ok", arrays |-> arrays, msg |-> ""]
    ELSE IF selected = <<>> \/ (\E k \in 1..Len(selected[1]) : selected[1][k] = idx)
    THEN LET triple == create_array(rb.nodes, fields[idx + 1], buf, rb.buffers,
                                    dictionaries_by_id, node_index, buffer_index,
                                    metadata)
         IN  IF triple.st # "Ok"
             THEN [st |-> triple.st, arrays |-> <<>>, msg |-> triple.msg]
             ELSE read_fields(fields, idx + 1, buf, rb, dictionaries_by_id, selected,
                              metadata, triple.node_index, triple.buffer_index,
                              Append(arrays, triple.array))
    ELSE LET tuple == skip_field(rb.nodes, fields[idx + 1], buf, rb.buffers,
                                 dictionaries_by_id, node_index, buffer_index)
         IN  read_fields(fields, idx + 1, buf, rb, dictionaries_by_id, selected,
                         metadata, tuple.node_index, tuple.buffer_index, arrays)

read_record_batch(buf, rb, sch, dictionaries_by_id, selected, metadata) ==
    LET loop == read_fields(sch, 0, buf, rb, dictionaries_by_id, selected, metadata,
                            0, 0, <<>>)
    IN  IF loop.st = "Panic" THEN PanicBatch
        ELSE IF loop.st = "Err" THEN ErrBatch(loop.msg)
        ELSE IF selected = <<>>
        THEN try_new_with_options(sch, loop.arrays, rb.length)
        ELSE IF ~project_ok(sch, selected[1])
        THEN ErrBatch("project index out of bounds")
        ELSE try_new_with_options(project(sch, selected[1]), loop.arrays, rb.length)

(***************************************************************************)
(* Inputs of the reconstruction walk.                                      *)
(***************************************************************************)
BufLen == 4           \* bytes of every buffer of a generated descriptor
DictIds == {1, 2}     \* dictionary ids a schema may use

ValueField == Field("", Int64T, 0)
DictField(id) == Field("", DictionaryT(ValueField), id)

FieldShapes ==
    { Int64T, Utf8T, NullT,
      DictionaryT(ValueField),
      ListT(DictField(2)),
      StructT(<<Field("x", Int64T, 0), DictField(1)>>),
      UnionT(<<Field("u", Int64T, 0)>>, "Sparse"),
      UnionT(<<Field("v", Utf8T, 0)>>, "Dense") }

FieldNames == <<"a", "b", "c", "d", "e">>

\* Top-level fields get distinct names; a top-level dictionary uses id 1.
Schemas ==
    UNION { { [k \in 1..n |->
                  Field(FieldNames[k], shapes[k],
                        IF shapes[k].kind = "Dictionary" THEN 1 ELSE 0)] :
                shapes \in [1..n -> FieldShapes] } : n \in 1..MaxFields }

\* n contiguous buffers of BufLen bytes each, and the body they lie in.
ContiguousBuffers(n) == [k \in 1..n |-> [offset |-> BufLen * (k - 1), length |-> BufLen]]
BodyOf(n) == [k \in 1..(BufLen * n) |-> k]

UniformNodes(m, nc) == [k \in 1..m |-> [length |-> 1, null_count |-> nc]]

\* The values array registered under a dictionary id.
DictValues(id) == ArrayData(Int64T, 1, <<<<100 + id>>>>, <<>>, <<>>)

Projections ==
    UNION { [1..n -> 0..(MaxFields - 1)] : n \in 1..MaxProjection }

NoResult == [st |-> "Idle", batch |-> NoBatch, msg |-> ""]

\* No read_record_batch call of the caller of SpecBatch has been made.
ReaderIdle ==
    /\ projection = <<>>
    /\ full = NoBatch
    /\ proj = NoBatch

\* The reader state is not used.
NoReader ==
    /\ source = <<>>
    /\ pos = 0
    /\ finished = FALSE
    /\ result = NoResult
    /\ calls = 0
    /\ wire = <<>>
    /\ h_finished = FALSE

\* The FileReader state is not used.
NoOp == [op |-> "none", index |-> 0, st |-> "", sets |-> 0]

NoFile ==
    /\ blocks = <<>>
    /\ current_block = 0
    /\ total_blocks = 0
    /\ metadata_version = 0
    /\ h_op = NoOp

\* No call on a Bitmap is made.
NoOperands ==
    /\ op1 = <<>>
    /\ op2 = <<>>
    /\ arg = 0
    /\ arg2 = 0
    /\ out = <<>>

InitBatch ==
    /\ mode = "batch"
    /\ schema \in Schemas
    /\ version \in {V4, V5}
    /\ \E m \in 0..MaxNodes, n \in 0..MaxBuffers, nc \in {0, 1},
          ids \in SUBSET DictIds, clipped \in BOOLEAN :
          \* either an ample descriptor, or one whose lists or body are short
          /\ \/ m = MaxNodes /\ n = MaxBuffers /\ ~clipped
             \/ m = MaxNodes /\ nc = 1
             \/ n = MaxBuffers /\ nc = 1 /\ ~clipped
          /\ batch = [length |-> 1, nodes |-> UniformNodes(m, nc),
                      buffers |-> ContiguousBuffers(n)]
          /\ body = IF clipped /\ n > 0
                    THEN SubSeq(BodyOf(n), 1, BufLen * n - 1)
                    ELSE BodyOf(n)
          /\ dicts = [id \in ids |-> DictValues(id)]
    /\ phase = "init"
    /\ ReaderIdle
    /\ NoReader
    /\ NoFile
    /\ NoOperands

\* read_record_batch(buf, batch, schema, dictionaries_by_id, None, metadata)
ReadFull ==
    /\ mode = "batch"
    /\ phase = "init"
    /\ full' = read_record_batch(body, batch, schema, dicts, <<>>, version)
    /\ phase' = "full"
    /\ UNCHANGED <<mode, schema, version, dicts, batch, body, projection, proj>>
    /\ UNCHANGED <<stream_vars, file_vars>>
    /\ UNCHANGED pure_vars

\* read_record_batch(buf, batch, schema, dictionaries_by_id, Some(p), metadata)
ReadProjected ==
    /\ mode = "batch"
    /\ phase = "full"
    /\ \E p \in Projections :
          /\ projection' = <<p>>
          /\ proj' = read_record_batch(body, batch, schema, dicts, <<p>>, version)
    /\ phase' = "done"
    /\ UNCHANGED <<mode, schema, version, dicts, batch, body, full>>
    /\ UNCHANGED <<stream_vars, file_vars>>
    /\ UNCHANGED pure_vars

NextBatch == ReadFull \/ ReadProjected

SpecBatch == InitBatch /\ [][NextBatch]_vars

(***************************************************************************)
(* Properties of read_record_batch.                                        *)
(***************************************************************************)
IsSelected(p, idx) == \E k \in 1..Len(p) : p[k] = idx

DistinctIndices(p) == \A j, k \in 1..Len(p) : p[j] = p[k] => j = k

ValidProjection(p, sch) == \A k \in 1..Len(p) : p[k] < Len(sch)

\* The dictionary ids of the dictionary-typed fields the walk decodes in a
\* field: the field itself or the fields nested in a list, struct or union.
RECURSIVE DictIdsIn(_)
DictIdsIn(field) ==
    IF field.data_type.kind = "Dictionary"
    THEN {field.dict_id}
    ELSE UNION { DictIdsIn(field.data_type.children[k]) :
                    k \in 1..Len(field.data_type.children) }

\* Field nodes and buffers the walk of a field requires (the table of the
\* format: one node per array, the per-type buffer count, the children).
RECURSIVE RequiredNodes(_)
RequiredNodes(field) ==
    LET ch == field.data_type.children
        SumTo[k \in 0..Len(ch)] ==
            IF k = 0 THEN 0 ELSE SumTo[k - 1] + RequiredNodes(ch[k])
    IN  IF field.data_type.kind = "Dictionary" THEN 1 ELSE 1 + SumTo[Len(ch)]

RECURSIVE RequiredBuffers(_, _)
RequiredBuffers(field, metadata) ==
    LET kind == field.data_type.kind
        ch == field.data_type.children
        SumTo[k \in 0..Len(ch)] ==
            IF k = 0 THEN 0 ELSE SumTo[k - 1] + RequiredBuffers(ch[k], metadata)
        own == CASE kind = "Null" -> 0
                 [] kind \in {"Utf8", "LargeUtf8", "Binary", "LargeBinary"} -> 3
                 [] kind \in {"FixedSizeList", "Struct"} -> 1
                 [] kind = "Union" ->
                        (IF field.data_type.umode = "Dense" THEN 2 ELSE 1)
                        + (IF metadata < V5 THEN 1 ELSE 0)
                 [] OTHER -> 2
    IN  IF kind = "Dictionary" THEN own ELSE own + SumTo[Len(ch)]

SchemaNodes(sch) ==
    LET SumTo[k \in 0..Len(sch)] ==
            IF k = 0 THEN 0 ELSE SumTo[k - 1] + RequiredNodes(sch[k])
    IN  SumTo[Len(sch)]

SchemaBuffers(sch, metadata) ==
    LET SumTo[k \in 0..Len(sch)] ==
            IF k = 0 THEN 0 ELSE SumTo[k - 1] + RequiredBuffers(sch[k], metadata)
    IN  SumTo[Len(sch)]

\* C1: reading with projection [i] yields exactly one column, of the type of
\* schema field i, equal to column i of the same batch read without
\* projection, whatever fields are skipped before and after i.
C1_ProjectionSingleColumn ==
    ( /\ mode = "batch"
      /\ phase = "done"
      /\ full.st = "Ok"
      /\ Len(projection[1]) = 1
      /\ ValidProjection(projection[1], schema) )
    => LET i == projection[1][1]
       IN  /\ proj.st = "Ok"
           /\ Len(proj.columns) = 1
           /\ proj.columns[1].data_type = schema[i + 1].data_type
           /\ proj.columns[1] = full.columns[i + 1]

\* C2: for a projection list p of more than one valid index, in any order
\* (here: pairwise distinct indices), the batch has the schema
\* schema.project(p), as many columns as that schema has fields, and its k-th
\* column is the decoded data of schema field p[k].
C2_ProjectionListOrder ==
    ( /\ mode = "batch"
      /\ phase = "done"
      /\ full.st = "Ok"
      /\ Len(projection[1]) > 1
      /\ ValidProjection(projection[1], schema)
      /\ DistinctIndices(projection[1]) )
    => LET p == projection[1]
       IN  /\ proj.st = "Ok"
           /\ proj.schema = project(schema, p)
           /\ Len(proj.columns) = Len(proj.schema)
           /\ \A k \in 1..Len(p) : proj.columns[k] = full.columns[p[k] + 1]

\* C9: read_record_batch returns an error (and no batch) whenever a decoded
\* field of Dictionary type, top-level or nested, has a dictionary id the
\* registry holds no entry for.
C9_UnknownDictionaryIsError ==
    /\ ( /\ mode = "batch"
         /\ phase \in {"full", "done"}
         /\ \E k \in 1..Len(schema) : ~(DictIdsIn(schema[k]) \subseteq DOMAIN dicts) )
       => full.st = "Err"
    /\ ( /\ mode = "batch"
         /\ phase = "done"
         /\ \E k \in 1..Len(schema) :
               /\ IsSelected(projection[1], k - 1)
               /\ ~(DictIdsIn(schema[k]) \subseteq DOMAIN dicts) )
       => proj.st = "Err"

\* C10: when the field-node list or the buffer-descriptor list is shorter than
\* the schema walk requires, read_record_batch returns an error value: it
\* neither panics nor returns a batch.
C10_OverrunIsError ==
    ( /\ mode = "batch"
      /\ phase \in {"full", "done"}
      /\ \/ Len(batch.nodes) < SchemaNodes(schema)
         \/ Len(batch.buffers) < SchemaBuffers(schema, version) )
    => full.st = "Err"

(***************************************************************************)
(* read_dictionary                                                         *)
(***************************************************************************)
\* Schema::fields_with_dict_id (datatypes/schema.rs, field.rs): the
\* dictionary-typed fields of the schema, nested ones included, whose
\* dictionary id is `id`.  The fields nested in the value type of a
\* dictionary are among them (test_roundtrip_stream_dict_of_list_of_dict
\* reads the dictionary of such a field).
RECURSIVE field_with_dict_id(_, _)
RECURSIVE nested_fields_with_dict_id(_, _)

nested_fields_with_dict_id(data_type, id) ==
    LET ch == data_type.children
        Cat[k \in 0..Len(ch)] ==
            IF k = 0 THEN <<>> ELSE Cat[k - 1] \o field_with_dict_id(ch[k], id)
    IN  IF data_type.kind = "Dictionary"
        THEN nested_fields_with_dict_id(ch[1].data_type, id)
        ELSE Cat[Len(ch)]

field_with_dict_id(field, id) ==
    (IF field.data_type.kind = "Dictionary" /\ field.dict_id = id THEN <<field>> ELSE <<>>)
        \o nested_fields_with_dict_id(field.data_type, id)

fields_with_dict_id(sch, id) ==
    LET Cat[k \in 0..Len(sch)] ==
            IF k = 0 THEN <<>> ELSE Cat[k - 1] \o field_with_dict_id(sch[k], id)
    IN  Cat[Len(sch)]

DictOk(d) == [st |-> "Ok", dicts |-> d, msg |-> ""]
DictErr(d, msg) == [st |-> "Err", dicts |-> d, msg |-> msg]
DictPanic(d) == [st |-> "Panic", dicts |-> d, msg |-> ""]

\* if batch.isDelta() { return Err(..) }
MutIsDeltaIgnored(db) == FALSE
is_delta(db) == db.isDelta

\* dictionaries_by_id.insert(id, dictionary_values)
MutInsertKeepsOld(d, id, values) == [x \in DOMAIN d \cup {id} |-> IF x \in DOMAIN d THEN d[x] ELSE values]
dict_insert(d, id, values) == [x \in DOMAIN d \cup {id} |-> IF x = id THEN values ELSE d[x]]

\* The tail of read_dictionary: the decoded one-column batch becomes the
\* dictionary's values.
dictionary_values(rb, dictionaries_by_id, id) ==
    IF rb.st = "Panic" THEN DictPanic(dictionaries_by_id)
    ELSE IF rb.st = "Err" THEN DictErr(dictionaries_by_id, rb.msg)
    ELSE DictOk(dict_insert(dictionaries_by_id, id, rb.columns[1]))

read_dictionary(buf, db, sch, dictionaries_by_id, metadata) ==
    IF is_delta(db)
    THEN DictErr(dictionaries_by_id, "delta dictionary batches not supported")
    ELSE LET using == fields_with_dict_id(sch, db.id)
         IN  IF using = <<>>
             THEN DictErr(dictionaries_by_id, "dictionary id not found in schema")
             ELSE dictionary_values(read_record_batch(buf, db.batch, <<Field("", using[1].data_type.children[1].data_type, 0)>>, dictionaries_by_id, <<>>, metadata), dictionaries_by_id, db.id)

(***************************************************************************)
(* IPC framing: the byte source, length prefixes, and the metadata decoder *)
(* (ipc::root_as_message, an external collaborator).  A metadata block     *)
(* is MetaLen bytes whose first byte selects a message of MessageCatalog.  *)
(***************************************************************************)
MetaLen == 2          \* bytes of the metadata block of every message

CONTINUATION_MARKER == <<255, 255, 255, 255>>

i32_from_le_bytes(b) ==
    \* two's complement: the top byte carries the sign
    b[1] + 256 * b[2] + 65536 * b[3] + 16777216 * (IF b[4] >= 128 THEN b[4] - 256 ELSE b[4])

i32_to_le_bytes(n) ==
    <<n % 256, (n \div 256) % 256, (n \div 65536) % 256, (n \div 16777216) % 256>>

\* A position of the source at which the underlying reader fails with an
\* I/O error that is not UnexpectedEof.
IoFault == 0 - 1

\* Read::read_exact on the in-memory source: n bytes from `at`, or
\* UnexpectedEof (everything left is consumed), or the I/O error of the
\* first faulty position in reach (the bytes before it are consumed).
read_exact(src, at, n) ==
    LET last == IF at + n <= Len(src) THEN at + n ELSE Len(src)
        faults == { k \in (at + 1)..last : src[k] = IoFault }
    IN  IF faults # {}
        THEN [ok |-> FALSE, eof |-> FALSE, data |-> <<>>,
              pos |-> (CHOOSE k \in faults : \A j \in faults : k <= j) - 1]
        ELSE [ok |-> at + n <= Len(src),
              eof |-> at + n > Len(src),
              data |-> IF at + n <= Len(src) THEN SubSeq(src, at + 1, at + n) ELSE <<>>,
              pos |-> last]

OneByteBuffers(n) == [k \in 1..n |-> [offset |-> k - 1, length |-> 1]]

Message(header_type, metadata, rb, id, isDelta) == [header_type |-> header_type, version |-> metadata, bodyLength |-> Len(rb.buffers), batch |-> rb, id |-> id, isDelta |-> isDelta]

NoDescriptor == [length |-> 0, nodes |-> <<>>, buffers |-> <<>>]
ValuesDescriptor == [length |-> 1, nodes |-> UniformNodes(1, 0), buffers |-> OneByteBuffers(2)]
BatchDescriptor == [length |-> 1, nodes |-> UniformNodes(2, 0), buffers |-> OneByteBuffers(4)]

SchemaMessage == Message("Schema", V5, NoDescriptor, 0, FALSE)
BatchMessage == Message("RecordBatch", V5, BatchDescriptor, 0, FALSE)
BatchMessageV4 == Message("RecordBatch", V4, BatchDescriptor, 0, FALSE)
DictMessage(id) == Message("DictionaryBatch", V5, ValuesDescriptor, id, FALSE)
DeltaMessage(id) == Message("DictionaryBatch", V5, ValuesDescriptor, id, TRUE)
NoneMessage == Message("NONE", V5, NoDescriptor, 0, FALSE)
TensorMessage == Message("Tensor", V5, NoDescriptor, 0, FALSE)
SparseTensorMessage == Message("SparseTensor", V5, NoDescriptor, 0, FALSE)
EndOfStream == Message("EOS", V5, NoDescriptor, 0, FALSE)

MessageCatalog ==
    << SchemaMessage, BatchMessage, DictMessage(1), DictMessage(2), DeltaMessage(1),
       DictMessage(3), NoneMessage, TensorMessage, BatchMessageV4, SparseTensorMessage >>

CodeOf(msg) == CHOOSE c \in 1..Len(MessageCatalog) : MessageCatalog[c] = msg

\* ipc::root_as_message
root_as_message(bytes) ==
    IF Len(bytes) >= 1 /\ bytes[1] >= 1 /\ bytes[1] <= Len(MessageCatalog)
    THEN <<MessageCatalog[bytes[1]]>>
    ELSE <<>>

\* The schema every reader of the model is opened on (ipc::convert::fb_to_schema).
ReaderSchema ==
    << Field("a", DictionaryT(ValueField), 1), Field("b", DictionaryT(ValueField), 2) >>

\* The writer side: a message and its body as bytes.
Item(msg, bytes) == [msg |-> msg, body |-> bytes]

Zeros(n) == [k \in 1..n |-> 0]

Prefix(marker, n) == (IF marker THEN CONTINUATION_MARKER ELSE <<>>) \o i32_to_le_bytes(n)

EncodeItem(item, marker) ==
    IF item.msg = EndOfStream
    THEN Prefix(marker, 0)
    ELSE Prefix(marker, MetaLen) \o <<CodeOf(item.msg)>> \o Zeros(MetaLen - 1) \o item.body

EncodeAll(items, marker) ==
    LET Cat[k \in 0..Len(items)] ==
            IF k = 0 THEN <<>> ELSE Cat[k - 1] \o EncodeItem(items[k], marker)
    IN  Cat[Len(items)]

(***************************************************************************)
(* StreamReader                                                            *)
(***************************************************************************)
SomeBatch(b) == [st |-> "Some", batch |-> b, msg |-> ""]
NoneResult == [st |-> "None", batch |-> NoBatch, msg |-> ""]
ErrResult(msg) == [st |-> "Err", batch |-> NoBatch, msg |-> msg]
PanicResult == [st |-> "Panic", batch |-> NoBatch, msg |-> ""]

\* Result<RecordBatch> -> Result<Option<RecordBatch>> (.map(Some))
map_some(rb) ==
    IF rb.st = "Ok" THEN SomeBatch(rb)
    ELSE IF rb.st = "Err" THEN ErrResult(rb.msg)
    ELSE PanicResult

\* What a call leaves behind: its result and the reader's fields.
Outcome(res, at, fin, d) == [res |-> res, pos |-> at, finished |-> fin, dicts |-> d]

\* StreamReader::try_new: the first message must be the schema.
MutTryNewWithoutMarker(src) ==
    LET r2 == read_exact(src, 0, 4)
        r3 == read_exact(src, r2.pos, i32_from_le_bytes(r2.data))
    IN  IF ~r2.ok THEN [st |-> "Err", schema |-> <<>>, pos |-> r2.pos]
        ELSE IF i32_from_le_bytes(r2.data) < 0 THEN [st |-> "Panic", schema |-> <<>>, pos |-> r2.pos]
        ELSE IF ~r3.ok \/ root_as_message(r3.data) = <<>> THEN [st |-> "Err", schema |-> <<>>, pos |-> r3.pos]
        ELSE [st |-> "Ok", schema |-> ReaderSchema, pos |-> r3.pos]
stream_try_new(src) ==
    LET r1 == read_exact(src, 0, 4)
        r2 == IF r1.ok /\ r1.data = CONTINUATION_MARKER THEN read_exact(src, r1.pos, 4) ELSE r1
        meta_len == i32_from_le_bytes(r2.data)
        r3 == read_exact(src, r2.pos, meta_len)
        message == root_as_message(r3.data)
    IN  IF ~r1.ok \/ ~r2.ok THEN [st |-> "Err", schema |-> <<>>, pos |-> r2.pos]
        ELSE IF meta_len < 0 THEN [st |-> "Panic", schema |-> <<>>, pos |-> r2.pos]
        ELSE IF ~r3.ok THEN [st |-> "Err", schema |-> <<>>, pos |-> r3.pos]
        ELSE IF message = <<>> \/ message[1].header_type # "Schema"
        THEN [st |-> "Err", schema |-> <<>>, pos |-> r3.pos]
        ELSE [st |-> "Ok", schema |-> ReaderSchema, pos |-> r3.pos]

\* if self.finished { return Ok(None); }
MutNeverFinished(fin) == FALSE
already_finished(fin) == fin

\* The RecordBatch arm of maybe_next: read the body, decode the batch.
MutShortBodyEndsStream(src, at, fin, d, sch, selected, message) == Outcome(NoneResult, Len(src), TRUE, d)
stream_record_batch(src, at, fin, d, sch, selected, message) ==
    LET r4 == read_exact(src, at, message.bodyLength)
    IN  IF ~r4.ok THEN Outcome(ErrResult("failed to fill whole buffer"), r4.pos, fin, d)
        ELSE Outcome(map_some(read_record_batch(r4.data, message.batch, sch, d, selected, message.version)), r4.pos, fin, d)

RECURSIVE stream_maybe_next(_, _, _, _, _, _)
\* The DictionaryBatch arm returning after read_dictionary(..)?
MutDictionaryEndsCall(src, at, fin, sch, selected, rd) ==
    IF rd.st = "Panic" THEN Outcome(PanicResult, at, fin, rd.dicts)
    ELSE IF rd.st = "Err" THEN Outcome(ErrResult(rd.msg), at, fin, rd.dicts)
    ELSE Outcome(NoneResult, at, fin, rd.dicts)

\* The DictionaryBatch arm of maybe_next after read_dictionary(..)?: the
\* reader goes on to the next message until it meets a RecordBatch.
stream_after_dictionary(src, at, fin, sch, selected, rd) ==
    IF rd.st = "Panic" THEN Outcome(PanicResult, at, fin, rd.dicts)
    ELSE IF rd.st = "Err" THEN Outcome(ErrResult(rd.msg), at, fin, rd.dicts)
    ELSE stream_maybe_next(src, at, fin, rd.dicts, sch, selected)

stream_dictionary_batch(src, at, fin, d, sch, selected, message) ==
    LET r4 == read_exact(src, at, message.bodyLength)
    IN  IF ~r4.ok THEN Outcome(ErrResult("failed to fill whole buffer"), r4.pos, fin, d)
        ELSE stream_after_dictionary(src, r4.pos, fin, sch, selected, read_dictionary(r4.data, message, sch, d, message.version))

\* The match on message.header_type() of maybe_next.
stream_dispatch(src, at, fin, d, sch, selected, message) ==
    CASE message.header_type = "Schema" ->
            Outcome(ErrResult("Not expecting a schema when messages are read"), at, fin, d)
      [] message.header_type = "RecordBatch" ->
            stream_record_batch(src, at, fin, d, sch, selected, message)
      [] message.header_type = "DictionaryBatch" ->
            stream_dictionary_batch(src, at, fin, d, sch, selected, message)
      [] message.header_type = "NONE" ->
            Outcome(NoneResult, at, fin, d)
      [] OTHER ->
            Outcome(ErrResult("Reading types other than record batches not yet supported"), at, fin, d)

\* The part of maybe_next after the length prefix: the metadata block.
stream_message(src, at, fin, d, sch, selected, meta_len) ==
    IF meta_len = 0 THEN Outcome(NoneResult, at, TRUE, d)
    ELSE IF meta_len < 0 THEN Outcome(PanicResult, at, fin, d)
    ELSE LET r3 == read_exact(src, at, meta_len)
             message == root_as_message(r3.data)
         IN  IF ~r3.ok THEN Outcome(ErrResult("failed to fill whole buffer"), r3.pos, fin, d)
             ELSE IF message = <<>> THEN Outcome(ErrResult("Unable to get root as message"), r3.pos, fin, d)
             ELSE stream_dispatch(src, r3.pos, fin, d, sch, selected, message[1])

\* e.kind() == std::io::ErrorKind::UnexpectedEof
MutEveryErrorIsEof(r) == TRUE
is_unexpected_eof(r) == r.eof

\* match self.reader.read_exact(&mut meta_size) { Err(e) => .. }
prefix_error(r, fin, d) ==
    IF is_unexpected_eof(r)
    THEN \* UnexpectedEof on the length prefix: the stream has ended
         Outcome(NoneResult, r.pos, TRUE, d)
    ELSE Outcome(ErrResult("i/o error"), r.pos, fin, d)

stream_maybe_next(src, at, fin, d, sch, selected) ==
    IF already_finished(fin) THEN Outcome(NoneResult, at, fin, d)
    ELSE
    LET r1 == read_exact(src, at, 4)
        r2 == IF r1.ok /\ r1.data = CONTINUATION_MARKER THEN read_exact(src, r1.pos, 4) ELSE r1
    IN  IF ~r1.ok THEN prefix_error(r1, fin, d)
        ELSE IF ~r2.ok THEN Outcome(ErrResult("failed to fill whole buffer"), r2.pos, fin, d)
        ELSE stream_message(src, r2.pos, fin, d, sch, selected, i32_from_le_bytes(r2.data))

\* What the writer put on the wire, and where each message ends in the source.
Wire(marker, items) ==
    [marker |-> marker, items |-> items,
     ends |-> [k \in 1..Len(items) |-> Len(EncodeAll(SubSeq(items, 1, k), marker))]]

\* The messages a stream may carry after its schema message.
DictBodies == { <<0, 7>>, <<0, 9>> }
BatchBody == <<21, 22, 23, 24>>

StreamItems ==
    { Item(BatchMessage, BatchBody), Item(DictMessage(2), <<0, 7>>),
      Item(DeltaMessage(1), <<0, 7>>), Item(DictMessage(3), <<0, 7>>),
      Item(NoneMessage, <<>>), Item(SchemaMessage, <<>>), Item(TensorMessage, <<>>),
      Item(EndOfStream, <<>>) }
    \cup { Item(DictMessage(1), b) : b \in DictBodies }

Wires == UNION { [1..n -> StreamItems] : n \in 0..MaxMsgs }

\* The read_record_batch caller of SpecBatch is not used.
NoBatchCall ==
    /\ version = 0
    /\ batch = NoDescriptor
    /\ body = <<>>
    /\ ReaderIdle

InitStream ==
    /\ mode = "stream"
    /\ phase = "closed"
    /\ \E marker \in BOOLEAN, items \in Wires :
          /\ wire = Wire(marker, <<Item(SchemaMessage, <<>>)>> \o items)
          /\ source = EncodeAll(wire.items, marker)
    /\ pos = 0
    /\ finished = FALSE
    /\ result = NoResult
    /\ calls = 0
    /\ h_finished = FALSE
    /\ schema = <<>>
    /\ dicts = <<>>
    /\ NoBatchCall
    /\ NoFile
    /\ NoOperands

\* StreamReader::try_new(reader, None)
StreamTryNew ==
    /\ mode = "stream"
    /\ phase = "closed"
    /\ \E r \in {stream_try_new(source)} :
           /\ phase' = (IF r.st = "Ok" THEN "open" ELSE IF r.st = "Err" THEN "failed" ELSE "panicked")
           /\ schema' = r.schema
           /\ pos' = r.pos
    /\ UNCHANGED <<mode, version, dicts, batch, body, projection, full, proj>>
    /\ UNCHANGED <<source, finished, result, calls, wire, h_finished>>
    /\ UNCHANGED file_vars
    /\ UNCHANGED pure_vars

\* Iterator::next for StreamReader: self.maybe_next().transpose()
StreamNext ==
    /\ mode = "stream"
    /\ phase = "open"
    /\ calls < MaxCalls
    /\ \E o \in {stream_maybe_next(source, pos, finished, dicts, schema, projection)} :
           /\ result' = o.res
           /\ pos' = o.pos
           /\ finished' = o.finished
           /\ dicts' = o.dicts
           /\ phase' = (IF o.res.st = "Panic" THEN "panicked" ELSE phase)
    /\ calls' = calls + 1
    /\ h_finished' = finished
    /\ UNCHANGED <<mode, schema, version, batch, body, projection, full, proj>>
    /\ UNCHANGED <<source, wire>>
    /\ UNCHANGED file_vars
    /\ UNCHANGED pure_vars

NextStream == StreamTryNew \/ StreamNext

SpecStream == InitStream /\ [][NextStream]_vars

\* Sources that break off or fail: the bytes of a stream with its tail cut
\* off, or with one position at which the underlying reader fails.
CutOff(bytes, n) == SubSeq(bytes, 1, Len(bytes) - n)

FaultAt(bytes, at) == [k \in 1..Len(bytes) |-> IF k = at THEN IoFault ELSE bytes[k]]

DamagedSources(bytes) ==
    { CutOff(bytes, n) : n \in 0..(Len(bytes) - 1) } \cup { FaultAt(bytes, at) : at \in 1..Len(bytes) }

DamagedWires == UNION { [1..n -> StreamItems] : n \in 0..MaxDamagedMsgs }

InitDamaged ==
    /\ mode = "stream"
    /\ phase = "closed"
    /\ \E marker \in BOOLEAN, items \in DamagedWires :
          /\ wire = Wire(marker, <<Item(SchemaMessage, <<>>)>> \o items)
          /\ source \in DamagedSources(EncodeAll(wire.items, marker))
    /\ pos = 0
    /\ finished = FALSE
    /\ result = NoResult
    /\ calls = 0
    /\ h_finished = FALSE
    /\ schema = <<>>
    /\ dicts = <<>>
    /\ NoBatchCall
    /\ NoFile
    /\ NoOperands

SpecDamaged == InitDamaged /\ [][NextStream]_vars

(***************************************************************************)
(* FileReader.  The footer is decoded by ipc::root_as_footer, an external  *)
(* collaborator: here it is the metadata version, the number of            *)
(* dictionary blocks, the number of record-batch blocks, then three bytes  *)
(* (offset, metaDataLength, bodyLength) for each block.                    *)
(***************************************************************************)
ARROW_MAGIC == <<65, 82, 82, 79, 87, 49>>

Block(offset, metaDataLength, bodyLength) == [offset |-> offset, metaDataLength |-> metaDataLength, bodyLength |-> bodyLength]

FooterBlocks(bytes, from, n) == [k \in 1..n |-> Block(bytes[from + 3 * k - 2], bytes[from + 3 * k - 1], bytes[from + 3 * k])]

\* ipc::root_as_footer
root_as_footer(bytes) ==
    IF Len(bytes) >= 3 /\ Len(bytes) = 3 + 3 * (bytes[2] + bytes[3])
    THEN << [version |-> bytes[1],
             dictionaries |-> FooterBlocks(bytes, 3, bytes[2]),
             recordBatches |-> FooterBlocks(bytes, 3 + 3 * bytes[2], bytes[3])] >>
    ELSE <<>>

MessageOk(message, at) == [st |-> "Ok", message |-> message, pos |-> at, msg |-> ""]
MessageErr(msg, at) == [st |-> "Err", message |-> NoneMessage, pos |-> at, msg |-> msg]
MessagePanic(at) == [st |-> "Panic", message |-> NoneMessage, pos |-> at, msg |-> ""]

\* let mut block_data = vec![0; meta_len as usize]; read_exact; root_as_message
file_read_metadata(src, at, meta_len, root_msg) ==
    IF meta_len < 0 THEN MessagePanic(at)
    ELSE LET r3 == read_exact(src, at, meta_len)
             message == root_as_message(r3.data)
         IN  IF ~r3.ok THEN MessageErr("failed to fill whole buffer", r3.pos)
             ELSE IF message = <<>> THEN MessageErr(root_msg, r3.pos)
             ELSE MessageOk(message[1], r3.pos)

\* seek(SeekFrom::Start(block.offset())), the length prefix behind an
\* optional continuation marker, then the metadata of the block's message.
file_read_message(src, block, root_msg) ==
    LET r1 == read_exact(src, block.offset, 4)
        r2 == IF r1.ok /\ r1.data = CONTINUATION_MARKER THEN read_exact(src, r1.pos, 4) ELSE r1
    IN  IF ~r2.ok THEN MessageErr("failed to fill whole buffer", r2.pos)
        ELSE file_read_metadata(src, r2.pos, i32_from_le_bytes(r2.data), root_msg)

\* seek(SeekFrom::Start(block.offset() + block.metaDataLength())); read_exact(&mut buf)
file_read_body(src, block) == read_exact(src, block.offset + block.metaDataLength, block.bodyLength)

DictionariesOf(st, msg, d, at) == [st |-> st, msg |-> msg, dicts |-> d, pos |-> at]

\* The loop over footer.dictionaries() of FileReader::try_new.
RECURSIVE file_read_dictionaries(_, _, _, _, _, _)
\* The dictionary loop going on after a dictionary that failed to decode
MutDictionaryErrorsIgnored(src, dblocks, k, sch, at, rd) == file_read_dictionaries(src, dblocks, k + 1, rd.dicts, sch, at)
file_after_dictionary(src, dblocks, k, sch, at, rd) ==
    IF rd.st # "Ok" THEN DictionariesOf(rd.st, rd.msg, rd.dicts, at)
    ELSE file_read_dictionaries(src, dblocks, k + 1, rd.dicts, sch, at)

file_dictionary_body(src, dblocks, k, d, sch, message, r4) ==
    IF ~r4.ok THEN DictionariesOf("Err", "failed to fill whole buffer", d, r4.pos)
    ELSE file_after_dictionary(src, dblocks, k, sch, r4.pos, read_dictionary(r4.data, message, sch, d, message.version))

file_dictionary_block(src, dblocks, k, d, sch, m) ==
    IF m.st # "Ok" THEN DictionariesOf(m.st, m.msg, d, m.pos)
    ELSE IF m.message.header_type # "DictionaryBatch"
    THEN DictionariesOf("Err", "Expecting DictionaryBatch in dictionary blocks", d, m.pos)
    ELSE file_dictionary_body(src, dblocks, k, d, sch, m.message, file_read_body(src, dblocks[k]))

file_read_dictionaries(src, dblocks, k, d, sch, at) ==
    IF k > Len(dblocks) THEN DictionariesOf("Ok", "", d, at)
    ELSE file_dictionary_block(src, dblocks, k, d, sch, file_read_message(src, dblocks[k], "Unable to get root as message"))

FileReaderOf(st, msg, sch, blks, d, mv, at) == [st |-> st, msg |-> msg, schema |-> sch, blocks |-> blks, total_blocks |-> Len(blks), dicts |-> d, metadata_version |-> mv, pos |-> at]

NoFileReader(st, msg, at) == FileReaderOf(st, msg, <<>>, <<>>, <<>>, 0, at)

\* Ok(Self { .. }) of try_new, or the error of the dictionary loop.
file_opened(footer, ds) ==
    IF ds.st # "Ok" THEN NoFileReader(ds.st, ds.msg, ds.pos)
    ELSE FileReaderOf("Ok", "", ReaderSchema, footer.recordBatches, ds.dicts, footer.version, ds.pos)

file_open_footer(src, footer, at) ==
    IF footer = <<>> THEN NoFileReader("Err", "Unable to get root as footer", at)
    ELSE file_opened(footer[1], file_read_dictionaries(src, footer[1].dictionaries, 1, <<>>, ReaderSchema, at))

\* let mut footer_data = vec![0; footer_len as usize];
\* reader.seek(SeekFrom::End(-10 - footer_len as i64))?; read_exact; root_as_footer
file_read_footer(src, footer_len) ==
    IF footer_len < 0 THEN NoFileReader("Panic", "", Len(src) - 6)
    ELSE IF Len(src) - 10 - footer_len < 0 THEN NoFileReader("Err", "invalid seek to a negative position", Len(src) - 6)
    ELSE file_open_footer(src, root_as_footer(SubSeq(src, Len(src) - 10 - footer_len + 1, Len(src) - 10)), Len(src) - 10)

\* FileReader::try_new(reader, None)
file_try_new(src) ==
    LET m1 == read_exact(src, 0, 6)
    IN  IF ~m1.ok THEN NoFileReader("Err", "failed to fill whole buffer", m1.pos)
        ELSE IF m1.data # ARROW_MAGIC
        THEN NoFileReader("Err", "Arrow file does not contain correct header", m1.pos)
        ELSE IF SubSeq(src, Len(src) - 5, Len(src)) # ARROW_MAGIC
        THEN NoFileReader("Err", "Arrow file does not contain correct footer", Len(src))
        ELSE IF Len(src) < 10
        THEN NoFileReader("Err", "invalid seek to a negative position", Len(src))
        ELSE file_read_footer(src, i32_from_le_bytes(SubSeq(src, Len(src) - 9, Len(src) - 6)))

\* if index >= self.total_blocks { Err(..) } else { self.current_block = index; Ok(()) }
\* set_index with a bound that lets indexes past the last block through
MutSetIndexUpToTwice(index, total) == index <= 2 * total + 1
MutSetIndexAlwaysOk(index, total) == TRUE
set_index_ok(index, total) == ~(index >= total)

\* let block = self.blocks[self.current_block];
MutAlwaysFirstBlock(blks, cur) == blks[1]
block_at(blks, cur) == blks[cur + 1]

\* if self.current_block < self.total_blocks { maybe_next } else { None }
has_next_block(cur, total) == cur < total

FileOutcome(res, at) == [res |-> res, pos |-> at]

\* The RecordBatch arm of FileReader::maybe_next.
file_record_batch(d, sch, selected, message, r4) ==
    IF ~r4.ok THEN FileOutcome(ErrResult("failed to fill whole buffer"), r4.pos)
    ELSE FileOutcome(map_some(read_record_batch(r4.data, message.batch, sch, d, selected, message.version)), r4.pos)

VersionError == ErrResult("Could not read IPC message as metadata versions mismatch")

\* self.metadata_version != V1 && message.version() != self.metadata_version
MutVersionsNeverMismatch(mv, message_version) == FALSE
versions_mismatch(mv, message_version) == mv # V1 /\ message_version # mv

\* The version check and the match on message.header_type() of maybe_next.
MutOtherHeadersEndFile(src, block, d, sch, selected, mv, m) ==
    IF m.st # "Ok" THEN FileOutcome(ErrResult(m.msg), m.pos)
    ELSE IF m.message.header_type = "RecordBatch"
    THEN file_record_batch(d, sch, selected, m.message, file_read_body(src, block))
    ELSE FileOutcome(NoneResult, m.pos)
file_dispatch(src, block, d, sch, selected, mv, m) ==
    IF m.st = "Panic" THEN FileOutcome(PanicResult, m.pos)
    ELSE IF m.st = "Err" THEN FileOutcome(ErrResult(m.msg), m.pos)
    ELSE IF versions_mismatch(mv, m.message.version)
    THEN FileOutcome(VersionError, m.pos)
    ELSE CASE m.message.header_type = "Schema" ->
                 FileOutcome(ErrResult("Not expecting a schema when messages are read"), m.pos)
           [] m.message.header_type = "RecordBatch" ->
                 file_record_batch(d, sch, selected, m.message, file_read_body(src, block))
           [] m.message.header_type = "NONE" ->
                 FileOutcome(NoneResult, m.pos)
           [] OTHER ->
                 FileOutcome(ErrResult("Reading types other than record batches not yet supported"), m.pos)

\* FileReader::maybe_next, on the block that current_block named at entry.
file_maybe_next(src, blks, cur, d, sch, selected, mv) ==
    file_dispatch(src, block_at(blks, cur), d, sch, selected, mv, file_read_message(src, block_at(blks, cur), "Unable to get root as footer"))

\* The writer side of a file: magic and padding, the dictionary messages, the
\* record-batch messages, the footer, its length, magic.
BatchBodies == { <<21, 22, 23, 24>>, <<31, 32, 33, 34>> }

FileDictionaryItems ==
    { Item(DictMessage(1), <<0, 7>>), Item(DictMessage(2), <<0, 9>>),
      Item(DeltaMessage(1), <<0, 7>>), Item(BatchMessage, BatchBody) }

FileRecordItems ==
    { Item(BatchMessage, b) : b \in BatchBodies }
    \cup { Item(BatchMessageV4, BatchBody), Item(NoneMessage, <<>>), Item(SchemaMessage, <<>>) }

DictionaryBlockLists == UNION { [1..n -> FileDictionaryItems] : n \in 0..MaxDictBlocks }

RecordBlockLists == UNION { [1..n -> FileRecordItems] : n \in 0..MaxBlocks }

FileHeader == ARROW_MAGIC \o <<0, 0>>

BlockOf(items, k, marker) ==
    << Len(FileHeader) + Len(EncodeAll(SubSeq(items, 1, k - 1), marker)),
       Len(Prefix(marker, MetaLen)) + MetaLen,
       Len(items[k].body) >>

EncodeFooter(f) ==
    LET items == f.dictionaries \o f.records
        Cat[k \in 0..Len(items)] ==
            IF k = 0 THEN <<>> ELSE Cat[k - 1] \o BlockOf(items, k, f.marker)
    IN  <<f.version, Len(f.dictionaries), Len(f.records)>> \o Cat[Len(items)]

EncodeFile(f) ==
    FileHeader \o EncodeAll(f.dictionaries \o f.records, f.marker) \o EncodeFooter(f)
        \o i32_to_le_bytes(Len(EncodeFooter(f))) \o ARROW_MAGIC

Op(op, index, st, sets) == [op |-> op, index |-> index, st |-> st, sets |-> sets]

InitFile ==
    /\ mode = "file"
    /\ phase = "closed"
    /\ \E marker \in BOOLEAN, fv \in {V1, V5}, ds \in DictionaryBlockLists, rs \in RecordBlockLists :
          /\ wire = [marker |-> marker, version |-> fv, dictionaries |-> ds, records |-> rs]
          /\ source = EncodeFile(wire)
    /\ pos = 0
    /\ finished = FALSE
    /\ result = NoResult
    /\ calls = 0
    /\ h_finished = FALSE
    /\ schema = <<>>
    /\ dicts = <<>>
    /\ NoBatchCall
    /\ NoFile
    /\ NoOperands

\* FileReader::try_new(reader, None)
FileTryNew ==
    /\ mode = "file"
    /\ phase = "closed"
    /\ \E r \in {file_try_new(source)} :
          /\ phase' = (IF r.st = "Ok" THEN "open" ELSE IF r.st = "Err" THEN "failed" ELSE "panicked")
          /\ schema' = r.schema
          /\ blocks' = r.blocks
          /\ total_blocks' = r.total_blocks
          /\ dicts' = r.dicts
          /\ metadata_version' = r.metadata_version
          /\ pos' = r.pos
          /\ h_op' = Op("try_new", 0, r.st, 0)
    /\ current_block' = 0
    /\ UNCHANGED <<mode, version, batch, body, projection, full, proj>>
    /\ UNCHANGED <<source, finished, result, calls, wire, h_finished>>
    /\ UNCHANGED pure_vars

\* Iterator::next for FileReader
FileNext ==
    /\ mode = "file"
    /\ phase = "open"
    /\ calls < MaxCalls
    /\ IF has_next_block(current_block, total_blocks)
       THEN \E o \in {file_maybe_next(source, blocks, current_block, dicts, schema, projection, metadata_version)} :
               /\ current_block' = current_block + 1
               /\ result' = o.res
               /\ pos' = o.pos
               /\ phase' = (IF o.res.st = "Panic" THEN "panicked" ELSE phase)
       ELSE /\ result' = NoneResult
            /\ UNCHANGED <<current_block, pos, phase>>
    /\ calls' = calls + 1
    /\ h_op' = IF h_op.op = "set_index" /\ h_op.st = "Ok"
               THEN Op("next", h_op.index, "after set_index", h_op.sets)
               ELSE Op("next", 0, "", h_op.sets)
    /\ UNCHANGED <<mode, schema, version, dicts, batch, body, projection, full, proj>>
    /\ UNCHANGED <<source, finished, wire, h_finished>>
    /\ UNCHANGED <<blocks, total_blocks, metadata_version>>
    /\ UNCHANGED pure_vars

\* FileReader::set_index(index)
FileSetIndex ==
    /\ mode = "file"
    /\ phase = "open"
    /\ h_op.sets < MaxSeeks
    /\ \E index \in 0..(total_blocks + 1) :
          /\ current_block' = (IF set_index_ok(index, total_blocks) THEN index ELSE current_block)
          /\ h_op' = Op("set_index", index, IF set_index_ok(index, total_blocks) THEN "Ok" ELSE "Err", h_op.sets + 1)
    /\ UNCHANGED <<mode, phase, batch_vars, stream_vars>>
    /\ UNCHANGED <<blocks, total_blocks, metadata_version>>
    /\ UNCHANGED pure_vars

NextFile == FileTryNew \/ FileNext \/ FileSetIndex

SpecFile == InitFile /\ [][NextFile]_vars

\* Files whose dictionary blocks may carry two dictionaries with the same id
\* and different values, with at most one record-batch block.
PreloadItems == FileDictionaryItems \cup { Item(DictMessage(1), <<0, 9>>), Item(DictMessage(2), <<0, 7>>) }

InitPreload ==
    /\ mode = "file"
    /\ phase = "closed"
    /\ \E marker \in BOOLEAN, n \in 0..MaxDictBlocks, rs \in { <<>>, <<Item(BatchMessage, BatchBody)>> } :
       \E ds \in [1..n -> PreloadItems] :
          /\ wire = [marker |-> marker, version |-> V5, dictionaries |-> ds, records |-> rs]
          /\ source = EncodeFile(wire)
    /\ pos = 0
    /\ finished = FALSE
    /\ result = NoResult
    /\ calls = 0
    /\ h_finished = FALSE
    /\ schema = <<>>
    /\ dicts = <<>>
    /\ NoBatchCall
    /\ NoFile
    /\ NoOperands

SpecPreload == InitPreload /\ [][NextFile]_vars

\* Both readers, each on its own source.
InitReader == InitStream \/ InitFile

NextReader == NextStream \/ NextFile

SpecReader == InitReader /\ [][NextReader]_vars

\* Both readers on short sources.
InitShort ==
    \/ InitStream /\ Len(wire.items) <= MaxShortMsgs + 1
    \/ InitFile /\ Len(wire.dictionaries) + Len(wire.records) <= MaxShortBlocks

SpecShort == InitShort /\ [][NextReader]_vars

\* Sources with a length that is negative as an i32: i32::MIN, -1 and -2 in
\* place of the length of one message or block, or of the footer.
MaxNegMsgs == 2       \* messages or blocks behind the schema of such a source

NegativeLengths == { <<0, 0, 0, 128>>, <<255, 255, 255, 255>>, <<254, 255, 255, 255>> }

Overwrite(bytes, at, four) == [k \in 1..Len(bytes) |-> IF k > at /\ k <= at + 4 THEN four[k - at] ELSE bytes[k]]

NegStreamItems == { Item(BatchMessage, BatchBody), Item(DictMessage(1), <<0, 7>>), Item(DictMessage(2), <<0, 9>>) }

\* where the length of the k-th message of a stream is written
StreamLengthAt(w, k) == (IF k = 1 THEN 0 ELSE w.ends[k - 1]) + (IF w.marker THEN 4 ELSE 0)

\* where the length of the k-th block of a file is written
FileLengthAt(f, k) == BlockOf(f.dictionaries \o f.records, k, f.marker)[1] + (IF f.marker THEN 4 ELSE 0)

InitNegative ==
    /\ phase = "closed"
    /\ \/ /\ mode = "stream"
          /\ \E marker \in BOOLEAN, n \in 0..MaxNegMsgs :
             \E items \in [1..n -> NegStreamItems] :
                /\ wire = Wire(marker, <<Item(SchemaMessage, <<>>)>> \o items)
                /\ \E k \in 1..(n + 1), four \in NegativeLengths :
                      source = Overwrite(EncodeAll(wire.items, marker), StreamLengthAt(wire, k), four)
       \/ /\ mode = "file"
          /\ \E marker \in BOOLEAN, ds \in { <<>>, <<Item(DictMessage(1), <<0, 7>>), Item(DictMessage(2), <<0, 9>>)>> }, n \in 0..MaxNegMsgs :
                /\ wire = [marker |-> marker, version |-> V5, dictionaries |-> ds, records |-> [k \in 1..n |-> Item(BatchMessage, BatchBody)]]
                /\ \E four \in NegativeLengths :
                      \/ source = Overwrite(EncodeFile(wire), Len(EncodeFile(wire)) - 10, four)
                      \/ \E k \in 1..(Len(ds) + n) : source = Overwrite(EncodeFile(wire), FileLengthAt(wire, k), four)
    /\ pos = 0
    /\ finished = FALSE
    /\ result = NoResult
    /\ calls = 0
    /\ h_finished = FALSE
    /\ schema = <<>>
    /\ dicts = <<>>
    /\ NoBatchCall
    /\ NoFile
    /\ NoOperands

SpecNegative == InitNegative /\ [][NextReader]_vars

\* Both readers on sources that carry messages of every header type.
MaxHeaderMsgs == 2
MaxHeaderBlocks == 2

HeaderStreamItems == StreamItems \cup { Item(SparseTensorMessage, <<>>) }

HeaderFileItems ==
    FileRecordItems
    \cup { Item(DictMessage(1), <<0, 7>>), Item(TensorMessage, <<>>), Item(SparseTensorMessage, <<>>) }

HeaderDictionaryLists == { <<>>, << Item(DictMessage(1), <<0, 7>>), Item(DictMessage(2), <<0, 9>>) >> }

InitHeaders ==
    /\ phase = "closed"
    /\ \/ /\ mode = "stream"
          /\ \E marker \in BOOLEAN, n \in 0..MaxHeaderMsgs :
                \E items \in [1..n -> HeaderStreamItems] :
                   /\ wire = Wire(marker, <<Item(SchemaMessage, <<>>)>> \o items)
                   /\ source = EncodeAll(wire.items, marker)
       \/ /\ mode = "file"
          /\ \E marker \in BOOLEAN, fv \in {V1, V5}, ds \in HeaderDictionaryLists, n \in 0..MaxHeaderBlocks :
                \E rs \in [1..n -> HeaderFileItems] :
                   /\ wire = [marker |-> marker, version |-> fv, dictionaries |-> ds, records |-> rs]
                   /\ source = EncodeFile(wire)
    /\ pos = 0
    /\ finished = FALSE
    /\ result = NoResult
    /\ calls = 0
    /\ h_finished = FALSE
    /\ schema = <<>>
    /\ dicts = <<>>
    /\ NoBatchCall
    /\ NoFile
    /\ NoOperands

SpecHeaders == InitHeaders /\ [][NextReader]_vars

(***************************************************************************)
(* The IPC file writer (ipc/writer.rs) and a round trip through it.  The   *)
(* writer puts out, for every array, one field node and the buffers of the *)
(* layout of its type, then its children in order; the values of every     *)
(* dictionary go into a dictionary batch of their own, written before the  *)
(* batch that refers to them.                                              *)
(***************************************************************************)
MaxRows == 2          \* rows of a written batch
MaxColumns == 2       \* columns of a written batch
DictLen == 2          \* entries of a written dictionary

MapT(f) == DT("Map", "", <<f>>)

\* Bit i (least-significant bit first) of a validity bitmap.
validity_bit(bytes, i) == (bytes[(i \div 8) + 1] \div (2 ^ (i % 8))) % 2

\* ArrayData::null_count
null_count(array) ==
    IF array.data_type.kind = "Null" THEN array.len
    ELSE IF array.nulls = <<>> THEN 0
    ELSE Cardinality({ i \in 0..(array.len - 1) : validity_bit(array.nulls[1], i) = 0 })

\* The validity buffer put on the wire: empty when the array has no nulls.
validity_buffer(array) == IF array.nulls = <<>> THEN <<>> ELSE array.nulls[1]

RECURSIVE write_array(_, _)
RECURSIVE write_arrays(_, _)

\* The field nodes and the buffers of a sequence of arrays, in order.
write_arrays(arrays, metadata) ==
    IF arrays = <<>> THEN [nodes |-> <<>>, buffers |-> <<>>]
    ELSE [nodes |-> write_array(Head(arrays), metadata).nodes \o write_arrays(Tail(arrays), metadata).nodes,
          buffers |-> write_array(Head(arrays), metadata).buffers \o write_arrays(Tail(arrays), metadata).buffers]

\* The field nodes and the buffers of one array: its own node and buffers
\* first, then those of its children.  The values of a dictionary array are
\* not among them; a union written with a version before V5 carries a
\* validity buffer in front of its type ids.
write_array(array, metadata) ==
    LET kind == array.data_type.kind
        own == CASE kind = "Null" -> <<>>
                 [] kind = "Union" -> (IF metadata < V5 THEN << <<>> >> ELSE <<>>) \o array.buffers
                 [] OTHER -> <<validity_buffer(array)>> \o array.buffers
        rest == write_arrays(IF kind = "Dictionary" THEN <<>> ELSE array.child_data, metadata)
    IN  [nodes |-> <<[length |-> array.len, null_count |-> null_count(array)]>> \o rest.nodes,
         buffers |-> own \o rest.buffers]

RECURSIVE Flatten(_)
Flatten(bufs) == IF bufs = <<>> THEN <<>> ELSE Head(bufs) \o Flatten(Tail(bufs))

\* The buffer descriptors (offset, length) of buffers laid out back to back.
buffer_descriptors(bufs) ==
    [k \in 1..Len(bufs) |-> [offset |-> Len(Flatten(SubSeq(bufs, 1, k - 1))), length |-> Len(bufs[k])]]

\* A message with its body, as the writer puts it into a block.
WrittenBlock(header_type, metadata, id, arrays, rows) ==
    LET w == write_arrays(arrays, metadata)
    IN  [msg |-> [header_type |-> header_type, version |-> metadata,
                  bodyLength |-> Len(Flatten(w.buffers)),
                  batch |-> [length |-> rows, nodes |-> w.nodes, buffers |-> buffer_descriptors(w.buffers)],
                  id |-> id, isDelta |-> FALSE],
         body |-> Flatten(w.buffers)]

RECURSIVE encode_dictionaries(_, _, _, _)
RECURSIVE encode_children_dictionaries(_, _, _, _)

encode_children_dictionaries(fields, arrays, metadata, written) ==
    IF fields = <<>> THEN written
    ELSE encode_children_dictionaries(Tail(fields), Tail(arrays), metadata,
                                      encode_dictionaries(Head(fields), Head(arrays), metadata, written))

\* The dictionary blocks of one column appended to those `written` so far:
\* the dictionaries nested in the values of a dictionary come before it,
\* and a dictionary id that was written is not written again.
encode_dictionaries(field, array, metadata, written) ==
    IF field.data_type.kind # "Dictionary"
    THEN encode_children_dictionaries(field.data_type.children, array.child_data, metadata, written)
    ELSE LET inner == encode_dictionaries(field.data_type.children[1], array.child_data[1], metadata, written)
         IN  IF \E k \in 1..Len(inner) : inner[k].msg.id = field.dict_id
             THEN inner
             ELSE Append(inner, WrittenBlock("DictionaryBatch", metadata, field.dict_id,
                                             <<array.child_data[1]>>, array.child_data[1].len))

\* FileWriter::write of one batch: its dictionary blocks and its record block.
write_batch(b, metadata) ==
    [dictionaries |-> encode_children_dictionaries(b.schema, b.columns, metadata, <<>>),
     record |-> WrittenBlock("RecordBatch", metadata, 0, b.columns, b.row_count)]

\* The batches that are written: columns of every kind, with and without
\* nulls, of 0 to MaxRows rows.
Bytes(n, seed) == [k \in 1..n |-> (17 * seed + k) % 251]

Bitmap1(n) == [k \in 1..((n + 7) \div 8) |-> IF k = 1 THEN 254 ELSE 255]

Utf8Values == Field("", Utf8T, 0)
Utf8Dict(name) == Field(name, DictionaryT(Utf8Values), 1)

ColumnTypes ==
    << Int64T, Utf8T, NullT,
       ListT(Field("item", Int64T, 0)),
       FixedSizeListT(Field("item", Int64T, 0)),
       StructT(<<Field("x", Int64T, 0), Field("y", Utf8T, 0)>>),
       UnionT(<<Field("u", Int64T, 0), Field("v", Utf8T, 0)>>, "Dense"),
       UnionT(<<Field("u", Int64T, 0), Field("v", Utf8T, 0)>>, "Sparse"),
       MapT(Field("entries", StructT(<<Field("keys", Utf8T, 0), Field("values", Int64T, 0)>>), 0)),
       DictionaryT(Utf8Values),
       StructT(<<Utf8Dict("dict")>>),
       DictionaryT(Field("", ListT(Utf8Dict("item")), 0)),
       DictionaryT(Field("", MapT(Field("entries", StructT(<<Utf8Dict("keys"), Utf8Dict("values")>>), 0)), 0)) >>

\* The dictionary id of a column: one id for every dictionary type.
ColumnDictId(c) == IF ColumnTypes[c].kind # "Dictionary" THEN 0 ELSE IF c = 10 THEN 1 ELSE c - 10

ColumnField(k, c) == Field(FieldNames[k], ColumnTypes[c], ColumnDictId(c))

RECURSIVE SampleArray(_, _, _, _)

\* The child arrays of a struct or union: the sparse children are as long
\* as their parent, of a dense union the first child holds every slot.
SampleChildren(fields, n, dense, with_nulls, seed) ==
    [k \in 1..Len(fields) |->
        SampleArray(fields[k], IF dense /\ k > 1 THEN 0 ELSE n, with_nulls, 3 * seed + k)]

\* An array of n slots of the type of `field`; with_nulls: its first slot
\* is null.  The values of a dictionary depend on its id only.
SampleArray(field, n, with_nulls, seed) ==
    LET data_type == field.data_type
        kind == data_type.kind
        nulls == IF with_nulls /\ n > 0 THEN <<Bitmap1(n)>> ELSE <<>>
    IN  CASE kind = "Null" -> ArrayData(data_type, n, <<>>, <<>>, <<>>)
          [] kind = "Int64" -> ArrayData(data_type, n, <<Bytes(8 * n, seed)>>, nulls, <<>>)
          [] kind = "Utf8" ->
                ArrayData(data_type, n, <<Bytes(4 * (n + 1), seed), Bytes(n, seed + 1)>>, nulls, <<>>)
          [] kind \in {"List", "Map"} ->
                ArrayData(data_type, n, <<Bytes(4 * (n + 1), seed)>>, nulls,
                          <<SampleArray(data_type.children[1], n, with_nulls, 3 * seed + 1)>>)
          [] kind = "FixedSizeList" ->
                ArrayData(data_type, n, <<>>, nulls,
                          <<SampleArray(data_type.children[1], n, with_nulls, 3 * seed + 1)>>)
          [] kind = "Struct" ->
                ArrayData(data_type, n, <<>>, nulls,
                          SampleChildren(data_type.children, n, FALSE, with_nulls, seed))
          [] kind = "Union" ->
                ArrayData(data_type, n,
                          IF data_type.umode = "Dense"
                          THEN <<[k \in 1..n |-> 0], Bytes(4 * n, seed)>>
                          ELSE <<[k \in 1..n |-> 0]>>,
                          <<>>,
                          SampleChildren(data_type.children, n, data_type.umode = "Dense", with_nulls, seed))
          [] kind = "Dictionary" ->
                ArrayData(data_type, n, <<Bytes(n, seed)>>, nulls,
                          <<SampleArray(data_type.children[1], DictLen, with_nulls, 40 + field.dict_id)>>)

ColumnChoices == UNION { [1..m -> 1..Len(ColumnTypes)] : m \in 0..MaxColumns }

WrittenBatch(cs, n, with_nulls) ==
    OkBatch([k \in 1..Len(cs) |-> ColumnField(k, cs[k])],
            [k \in 1..Len(cs) |-> SampleArray(ColumnField(k, cs[k]), n, with_nulls, k)],
            n)

NoWrittenFile == [dictionaries |-> <<>>, record |-> WrittenBlock("NONE", 0, 0, <<>>, 0)]

InitRoundTrip ==
    /\ mode = "roundtrip"
    /\ phase = "composed"
    /\ \E cs \in ColumnChoices, n \in 0..MaxRows, with_nulls \in BOOLEAN, metadata \in {V4, V5} :
          wire = [original |-> WrittenBatch(cs, n, with_nulls), version |-> metadata, file |-> NoWrittenFile]
    /\ schema = <<>>
    /\ dicts = <<>>
    /\ NoBatchCall
    /\ source = <<>>
    /\ pos = 0
    /\ finished = FALSE
    /\ result = NoResult
    /\ calls = 0
    /\ h_finished = FALSE
    /\ NoFile
    /\ NoOperands

\* FileWriter::try_new, write(&batch), finish()
FileWriterWrite ==
    /\ mode = "roundtrip"
    /\ phase = "composed"
    /\ phase' = "written"
    /\ wire' = [wire EXCEPT !.file = write_batch(wire.original, wire.version)]
    /\ UNCHANGED <<mode, batch_vars, file_vars>>
    /\ UNCHANGED <<source, pos, finished, result, calls, h_finished>>
    /\ UNCHANGED pure_vars

\* The loop over footer.dictionaries() of FileReader::try_new, on the
\* blocks of the written file.
RECURSIVE read_dictionary_blocks(_, _, _)
after_dictionary_block(dblocks, sch, rd) ==
    IF rd.st # "Ok" THEN rd ELSE read_dictionary_blocks(Tail(dblocks), rd.dicts, sch)

read_dictionary_blocks(dblocks, d, sch) ==
    IF dblocks = <<>> THEN DictOk(d)
    ELSE IF Head(dblocks).msg.header_type # "DictionaryBatch"
    THEN DictErr(d, "Expecting DictionaryBatch in dictionary blocks")
    ELSE after_dictionary_block(dblocks, sch,
             read_dictionary(Head(dblocks).body, Head(dblocks).msg, sch, d, Head(dblocks).msg.version))

\* FileReader::try_new(reader, None) on the written file
RoundTripTryNew ==
    /\ mode = "roundtrip"
    /\ phase = "written"
    /\ \E rd \in {read_dictionary_blocks(wire.file.dictionaries, <<>>, wire.original.schema)} :
          /\ phase' = (IF rd.st = "Ok" THEN "open" ELSE "failed")
          /\ dicts' = rd.dicts
          /\ result' = (IF rd.st = "Ok" THEN result ELSE IF rd.st = "Err" THEN ErrResult(rd.msg) ELSE PanicResult)
    /\ schema' = wire.original.schema
    /\ metadata_version' = wire.version
    /\ total_blocks' = 1
    /\ UNCHANGED <<mode, version, batch, body, projection, full, proj>>
    /\ UNCHANGED <<source, pos, finished, calls, wire, h_finished>>
    /\ UNCHANGED <<blocks, current_block, h_op>>
    /\ UNCHANGED pure_vars

\* FileReader::next() on the record block of the written file
RoundTripNext ==
    /\ mode = "roundtrip"
    /\ phase = "open"
    /\ has_next_block(current_block, total_blocks)
    /\ current_block' = current_block + 1
    /\ phase' = "read"
    /\ calls' = calls + 1
    /\ \E o \in {IF versions_mismatch(metadata_version, wire.file.record.msg.version)
                 THEN FileOutcome(VersionError, 0)
                 ELSE file_record_batch(dicts, schema, <<>>, wire.file.record.msg,
                                        [ok |-> TRUE, eof |-> FALSE, data |-> wire.file.record.body, pos |-> 0])} :
          result' = o.res
    /\ UNCHANGED <<mode, schema, version, dicts, batch, body, projection, full, proj>>
    /\ UNCHANGED <<source, pos, finished, wire, h_finished>>
    /\ UNCHANGED <<blocks, total_blocks, metadata_version, h_op>>
    /\ UNCHANGED pure_vars

NextRoundTrip == FileWriterWrite \/ RoundTripTryNew \/ RoundTripNext

SpecRoundTrip == InitRoundTrip /\ [][NextRoundTrip]_vars

(***************************************************************************)
(* Bitmap (arrow-data/src/bitmap.rs).  A Buffer is a sequence of bytes; a  *)
(* Bitmap is the triple (bits, offset, length) of the struct.  A call      *)
(* returns a value, returns an ArrowError ("Err"), panics, or, where it    *)
(* reads outside the buffer through a raw pointer, does whatever the build *)
(* makes of it: every outcome is in the set the operator yields.           *)
(***************************************************************************)
MaxBytes == 2         \* bytes of a buffer
MaxOffset == 1        \* bit offset of an operand of a binary operator
MaxBits == 3          \* bit length of an operand of a binary operator

Bitmap(bits, offset, length) == [bits |-> bits, offset |-> offset, length |-> length]

Returned(value) == [st |-> "Ok", value |-> value, msg |-> ""]
Failed(msg) == [st |-> "Err", value |-> <<>>, msg |-> msg]
Panicked == [st |-> "Panic", value |-> <<>>, msg |-> ""]
Crashed == [st |-> "Crash", value |-> <<>>, msg |-> ""]

\* bit_util::get_bit_raw(data, i) with `data` pointing at byte `base` of
\* `bytes`: (*data.add(i >> 3) & BIT_MASK[i & 7]) != 0
get_bit_raw(bytes, base, i) == (bytes[base + (i \div 8) + 1] \div (2 ^ (i % 8))) % 2 = 1

\* Bitmap::new_from_buffer
new_from_buffer(buf, offset, length) ==
    IF ~(offset + length <= Len(buf) * 8) THEN Panicked
    ELSE Returned(Bitmap(buf, offset, length))

\* Bitmap::is_set: the pointer is advanced by self.offset bytes.  The byte
\* it reads lies in the buffer, or the read is outside of it.
is_set(self, i) ==
    IF ~(i < self.length) THEN {Panicked}
    ELSE IF self.offset + (i \div 8) < Len(self.bits)
    THEN {Returned(get_bit_raw(self.bits, self.offset, i))}
    ELSE {Returned(TRUE), Returned(FALSE), Crashed}

\* bit_util::ceil and bit_util::round_upto_multiple_of_64
ceil(value, divisor) == (value + divisor - 1) \div divisor
round_upto_multiple_of_64(num) == ceil(num, 64) * 64

\* Bitmap::new with the length the struct would report if it were the
\* capacity of the buffer in bits
MutLengthIsCapacity(num_bits) == Bitmap([k \in 1..round_upto_multiple_of_64(ceil(num_bits, 8)) |-> 255], 0, 8 * round_upto_multiple_of_64(ceil(num_bits, 8)))

\* Bitmap::new with a zeroed buffer
MutNewZeroed(num_bits) == Bitmap([k \in 1..round_upto_multiple_of_64(ceil(num_bits, 8)) |-> 0], 0, num_bits)

\* Bitmap::new
new(num_bits) ==
    Bitmap([k \in 1..round_upto_multiple_of_64(ceil(num_bits, 8)) |-> 255], 0, num_bits)

\* Bitmap::bit_len
bit_len(self) == self.length

\* slice without the assertion
MutSliceUnchecked(self, offset) == Returned(Bitmap(self.bits, self.offset + offset, self.length - offset))

\* Bitmap::slice
slice(self, offset) ==
    IF ~(offset <= bit_len(self)) THEN Panicked
    ELSE Returned(Bitmap(self.bits, self.offset + offset, self.length - offset))

\* Bitmap::slice_with_length
slice_with_length(self, offset, length) ==
    IF ~(offset + length <= bit_len(self)) THEN Panicked
    ELSE Returned(Bitmap(self.bits, self.offset + offset, length))

\* UnalignedBitChunk::new(buffer, offset, len).count_ones(): the number of
\* 1-bits among the bits offset .. offset + len - 1 of the buffer; a range
\* that leaves the buffer fails on the slice of the buffer.
count_ones(buffer, offset, len) ==
    IF len = 0 THEN Returned(0)
    ELSE IF offset + len > 8 * Len(buffer) THEN Panicked
    ELSE Returned(Cardinality({ i \in offset..(offset + len - 1) : get_bit_raw(buffer, 0, i) }))

\* count_set_bits_offset counting from `offset` of the buffer
MutCountIgnoresOffset(self, offset, len) == IF ~(offset + len <= bit_len(self)) THEN Panicked ELSE count_ones(self.bits, offset, len)

\* Bitmap::count_set_bits_offset
count_set_bits_offset(self, offset, len) ==
    IF ~(offset + len <= bit_len(self)) THEN Panicked
    ELSE count_ones(self.bits, self.offset + offset, len)

\* Bit i of a buffer; a bit outside of the buffer reads as `fill`.
bit_or(bytes, i, fill) == IF i < 8 * Len(bytes) THEN get_bit_raw(bytes, 0, i) ELSE fill

BitAndOp(a, b) == a /\ b
BitOrOp(a, b) == a \/ b

\* One byte of the result of buffer_bin_and / buffer_bin_or: bit j of byte
\* k combines the bits 8k + j of the two operands; the bits from len_in_bits
\* on are zero.
bin_op_byte(left, left_offset, right, right_offset, len_in_bits, or, fill, k) ==
    LET bit(j) == IF 8 * k + j >= len_in_bits THEN FALSE
                  ELSE IF or
                  THEN BitOrOp(bit_or(left, left_offset + 8 * k + j, fill), bit_or(right, right_offset + 8 * k + j, fill))
                  ELSE BitAndOp(bit_or(left, left_offset + 8 * k + j, fill), bit_or(right, right_offset + 8 * k + j, fill))
        Sum[j \in 0..8] == IF j = 0 THEN 0 ELSE Sum[j - 1] + (IF bit(j - 1) THEN 2 ^ (j - 1) ELSE 0)
    IN  Sum[8]

\* arrow_buffer::buffer::buffer_bin_and / buffer_bin_or: a fresh buffer of
\* ceil(len_in_bits / 8) bytes.  Where an operand is shorter than
\* offset + len_in_bits the call panics or reads outside of the operand.
buffer_bin_op(left, left_offset, right, right_offset, len_in_bits, or) ==
    LET bytes(fill) == [k \in 1..((len_in_bits + 7) \div 8) |->
                           bin_op_byte(left, left_offset, right, right_offset, len_in_bits, or, fill, k - 1)]
    IN  IF left_offset + len_in_bits <= 8 * Len(left) /\ right_offset + len_in_bits <= 8 * Len(right)
        THEN {Returned(bytes(FALSE))}
        ELSE {Panicked, Returned(bytes(FALSE)), Returned(bytes(TRUE))}

\* Ok(Bitmap::new_from_buffer(buffer, 0, self.bit_len()))
new_bitmaps(buffers, length) ==
    { IF b.st = "Ok" THEN new_from_buffer(b.value, 0, length) ELSE b : b \in buffers }

\* if self.bits.len() != rhs.bits.len() { return Err(..) }
bitand_same_size(self, rhs) == Len(self.bits) = Len(rhs.bits)

\* BitAnd for &Bitmap
bitand(self, rhs) ==
    IF ~bitand_same_size(self, rhs)
    THEN {Failed("Bitmaps must be the same size to apply Bitwise AND.")}
    ELSE new_bitmaps(buffer_bin_op(self.bits, self.offset, rhs.bits, rhs.offset, self.length, FALSE), self.length)

\* if self.bit_len() != rhs.bit_len() { return Err(..) }
bitor_same_size(self, rhs) == self.length = rhs.length

\* BitOr for &Bitmap
bitor(self, rhs) ==
    IF ~bitor_same_size(self, rhs)
    THEN {Failed("Bitmaps must be the same size to apply Bitwise OR.")}
    ELSE new_bitmaps(buffer_bin_op(self.bits, self.offset, rhs.bits, rhs.offset, self.length, TRUE), self.length)

\* bytes[from..to]: the slice panics when from > to or to > bytes.len()
slice_ok(bytes, from, to) == from <= to /\ to <= Len(bytes)

\* PartialEq for Bitmap: the byte slices [offset..bit_len] of the two buffers
eq(self, other) ==
    IF self.length # other.length THEN Returned(FALSE)
    ELSE IF ~slice_ok(self.bits, self.offset, self.length) THEN Panicked
    ELSE IF ~slice_ok(other.bits, other.offset, self.length) THEN Panicked
    ELSE Returned(SubSeq(self.bits, self.offset + 1, self.length) = SubSeq(other.bits, other.offset + 1, self.length))

\* The bitmaps of the calls: new_from_buffer(buf, offset, length) over the
\* leading bytes of a few bit patterns.
BytePatterns ==
    << <<106, 240, 51, 165>>, <<78, 60, 85, 90>>, <<255, 255, 255, 255>> >>

Buffers == { SubSeq(BytePatterns[p], 1, n) : p \in 1..Len(BytePatterns), n \in 1..MaxBytes }

Bitmaps ==
    { new_from_buffer(buf, offset, length).value :
        <<buf, offset, length>> \in
            { t \in Buffers \X (0..(8 * MaxBytes)) \X (0..(8 * MaxBytes)) :
                 new_from_buffer(t[1], t[2], t[3]).st = "Ok" } }

ShortBitmaps == { b \in Bitmaps : b.offset <= MaxOffset /\ b.length <= MaxBits }

Call(op, res) == [op |-> op, res |-> res]

InitBitmap ==
    /\ mode = "bitmap"
    /\ phase = "idle"
    /\ \/ op1 \in Bitmaps /\ op2 = <<>>
       \/ op1 \in ShortBitmaps /\ op2 \in ShortBitmaps
    /\ arg = 0
    /\ arg2 = 0
    /\ out = <<>>
    /\ schema = <<>>
    /\ dicts = <<>>
    /\ NoBatchCall
    /\ NoReader
    /\ NoFile

\* A call that only reads its operands ends the behaviour: the bitmaps are
\* as they were before it, and so are the calls that can follow.  So does a
\* call that panics.

\* self.is_set(i)
BitmapIsSet ==
    /\ mode = "bitmap" /\ phase = "idle"
    /\ op2 = <<>>
    /\ \E i \in 0..(8 * MaxBytes) : \E o \in is_set(op1, i) :
          /\ arg' = i /\ arg2' = 0
          /\ out' = Call("is_set", o)
    /\ phase' = "done"
    /\ UNCHANGED <<mode, batch_vars, stream_vars, file_vars, op1, op2>>

\* &self & &rhs
BitmapAnd ==
    /\ mode = "bitmap" /\ phase = "idle"
    /\ op2 # <<>>
    /\ \E o \in bitand(op1, op2) : out' = Call("and", o)
    /\ arg' = 0 /\ arg2' = 0
    /\ phase' = "done"
    /\ UNCHANGED <<mode, batch_vars, stream_vars, file_vars, op1, op2>>

\* &self | &rhs
BitmapOr ==
    /\ mode = "bitmap" /\ phase = "idle"
    /\ op2 # <<>>
    /\ \E o \in bitor(op1, op2) : out' = Call("or", o)
    /\ arg' = 0 /\ arg2' = 0
    /\ phase' = "done"
    /\ UNCHANGED <<mode, batch_vars, stream_vars, file_vars, op1, op2>>

\* self == other
BitmapEq ==
    /\ mode = "bitmap" /\ phase = "idle"
    /\ op2 # <<>>
    /\ out' = Call("eq", eq(op1, op2))
    /\ arg' = 0 /\ arg2' = 0
    /\ phase' = "done"
    /\ UNCHANGED <<mode, batch_vars, stream_vars, file_vars, op1, op2>>

\* The sizes Bitmap::new is called with: the small ones and the ones of
\* test_bitmap_length.
MaxNewBits == 9
MaxArg == 9           \* offsets and lengths handed to slice and count
NewSizes == (0..MaxNewBits) \cup {63 * 8, 64 * 8, 65 * 8}

\* let bm = Bitmap::new(num_bits)
BitmapNew ==
    /\ mode = "bitmap" /\ phase = "idle"
    /\ \E num_bits \in NewSizes :
          /\ arg' = num_bits /\ arg2' = 0
          /\ op1' = new(num_bits)
          /\ out' = Call("new", Returned(new(num_bits)))
    /\ op2' = <<>>
    /\ UNCHANGED <<mode, phase, batch_vars, stream_vars, file_vars>>

\* let bm = bm.slice(offset), for the bitmaps of at most 8 * MaxBytes bits
BitmapSlice ==
    /\ mode = "bitmap" /\ phase = "idle"
    /\ op2 = <<>>
    /\ bit_len(op1) <= 8 * MaxBytes
    /\ \E offset \in 0..MaxArg : \E o \in {slice(op1, offset)} :
          /\ arg' = offset /\ arg2' = 0
          /\ out' = Call("slice", o)
          /\ op1' = IF o.st = "Ok" THEN o.value ELSE op1
          /\ phase' = IF o.st = "Ok" THEN "idle" ELSE "done"
    /\ UNCHANGED <<mode, batch_vars, stream_vars, file_vars, op2>>

\* let bm = bm.slice_with_length(offset, length)
BitmapSliceWithLength ==
    /\ mode = "bitmap" /\ phase = "idle"
    /\ op2 = <<>>
    /\ bit_len(op1) <= 8 * MaxBytes
    /\ \E offset \in 0..MaxArg : \E length \in 0..MaxArg :
       \E o \in {slice_with_length(op1, offset, length)} :
          /\ arg' = offset /\ arg2' = length
          /\ out' = Call("slice_with_length", o)
          /\ op1' = IF o.st = "Ok" THEN o.value ELSE op1
          /\ phase' = IF o.st = "Ok" THEN "idle" ELSE "done"
    /\ UNCHANGED <<mode, batch_vars, stream_vars, file_vars, op2>>

\* self.count_set_bits_offset(offset, len)
BitmapCount ==
    /\ mode = "bitmap" /\ phase = "idle"
    /\ op2 = <<>>
    /\ \E offset \in 0..MaxArg : \E len \in 0..MaxArg :
          /\ arg' = offset /\ arg2' = len
          /\ out' = Call("count_set_bits_offset", count_set_bits_offset(op1, offset, len))
    /\ phase' = "done"
    /\ UNCHANGED <<mode, batch_vars, stream_vars, file_vars, op1, op2>>

\* self.slice(a).slice(b), self.slice(a + b) and self.slice(a).slice(b) ==
\* self.slice(a + b), for a + b <= self.bit_len()
slice_twice(self, a, b) ==
    [twice |-> slice(slice(self, a).value, b).value,
     once  |-> slice(self, a + b).value,
     equal |-> eq(slice(slice(self, a).value, b).value, slice(self, a + b).value)]

BitmapSliceTwice ==
    /\ mode = "bitmap" /\ phase = "idle"
    /\ op2 = <<>>
    /\ bit_len(op1) <= 8 * MaxBytes
    /\ \E a \in 0..MaxArg : \E b \in 0..MaxArg :
          /\ a + b <= bit_len(op1)
          /\ arg' = a /\ arg2' = b
          /\ out' = Call("slice_twice", slice_twice(op1, a, b))
    /\ phase' = "done"
    /\ UNCHANGED <<mode, batch_vars, stream_vars, file_vars, op1, op2>>

NextBitmap ==
    \/ BitmapNew
    \/ BitmapIsSet
    \/ BitmapSlice
    \/ BitmapSliceWithLength
    \/ BitmapCount
    \/ BitmapSliceTwice
    \/ BitmapAnd
    \/ BitmapOr
    \/ BitmapEq

SpecBitmap == InitBitmap /\ [][NextBitmap]_vars

(***************************************************************************)
(* A bit of a slice and the same bit of the bitmap it was sliced from.     *)
(***************************************************************************)
InitSlice ==
    /\ mode = "slice"
    /\ phase = "idle"
    /\ op1 \in Bitmaps
    /\ op2 = <<>>
    /\ arg = 0
    /\ arg2 = 0
    /\ out = <<>>
    /\ schema = <<>>
    /\ dicts = <<>>
    /\ NoBatchCall
    /\ NoReader
    /\ NoFile

\* self.slice(a).is_set(i) and self.is_set(a + i), for a <= self.bit_len()
\* and i < self.bit_len() - a
BitmapSliceIsSet ==
    /\ mode = "slice" /\ phase = "idle"
    /\ bit_len(op1) <= 8 * MaxBytes
    /\ \E a \in 0..bit_len(op1) : \E i \in 0..(bit_len(op1) - a - 1) :
          /\ a <= MaxArg
          /\ \E sliced \in is_set(slice(op1, a).value, i) :
             \E direct \in is_set(op1, a + i) :
                out' = Call("slice_is_set", [sliced |-> sliced, direct |-> direct])
          /\ arg' = a /\ arg2' = i
    /\ phase' = "done"
    /\ UNCHANGED <<mode, batch_vars, stream_vars, file_vars, op1, op2>>

\* self.slice_with_length(a, l).is_set(i) and self.is_set(a + i), for
\* a + l <= self.bit_len() and i < l: the shortest and the longest such l
BitmapSliceWithLengthIsSet ==
    /\ mode = "slice" /\ phase = "idle"
    /\ bit_len(op1) <= 8 * MaxBytes
    /\ \E a \in 0..bit_len(op1) : \E i \in 0..(bit_len(op1) - a - 1) :
       \E l \in {i + 1, bit_len(op1) - a} :
          /\ a <= MaxArg
          /\ \E sliced \in is_set(slice_with_length(op1, a, l).value, i) :
             \E direct \in is_set(op1, a + i) :
                out' = Call("slice_with_length_is_set",
                            [sliced |-> sliced, direct |-> direct])
          /\ arg' = a /\ arg2' = i
    /\ phase' = "done"
    /\ UNCHANGED <<mode, batch_vars, stream_vars, file_vars, op1, op2>>

NextSlice ==
    \/ BitmapSliceIsSet
    \/ BitmapSliceWithLengthIsSet

SpecSlice == InitSlice /\ [][NextSlice]_vars

(***************************************************************************)
(* create_array and skip_field called on one field from given cursors.     *)
(***************************************************************************)
MaxStart == 2         \* node_index and buffer_index a walk starts from

\* The leaf types of a walk, and the types nested over them.
WalkLeaves ==
    { Int64T, Utf8T, NullT, DT("LargeUtf8", "", <<>>), DT("Binary", "", <<>>),
      DT("LargeBinary", "", <<>>), DT("FixedSizeBinary", "", <<>>),
      DictionaryT(ValueField) }

WalkField(data_type) == Field("f", data_type, IF data_type.kind = "Dictionary" THEN 1 ELSE 0)

Nested(types) ==
    { ListT(WalkField(t)) : t \in types }
    \cup { DT("LargeList", "", <<WalkField(t)>>) : t \in types }
    \cup { FixedSizeListT(WalkField(t)) : t \in types }
    \cup { MapT(WalkField(StructT(<<WalkField(Utf8T), WalkField(t)>>))) : t \in types }
    \cup { StructT(<<WalkField(t), WalkField(Int64T)>>) : t \in types }
    \cup { UnionT(<<WalkField(t)>>, m) : t \in types, m \in {"Sparse", "Dense"} }
    \cup { UnionT(<<WalkField(Utf8T), WalkField(t)>>, "Dense") : t \in types }

\* Types that are themselves nested over a few nested types.
NestedTwice ==
    Nested({ ListT(WalkField(Utf8T)), FixedSizeListT(WalkField(NullT)),
             StructT(<<WalkField(DictionaryT(ValueField)), WalkField(Int64T)>>),
             UnionT(<<WalkField(Int64T)>>, "Sparse"),
             UnionT(<<WalkField(Utf8T)>>, "Dense") })

WalkTypes == WalkLeaves \cup Nested(WalkLeaves) \cup NestedTwice

Cursors(node_index, buffer_index) == [node_index |-> node_index, buffer_index |-> buffer_index]

InitWalk ==
    /\ mode = "walk"
    /\ phase = "idle"
    /\ \E t \in WalkTypes : schema = <<WalkField(t)>>
    /\ version \in {V4, V5}
    /\ \E ample \in BOOLEAN, nc \in {0, 1}, ids \in {{}, DictIds} :
          /\ batch = [length |-> 1,
                      nodes |-> UniformNodes(IF ample THEN 2 * MaxNodes ELSE 2, nc),
                      buffers |-> ContiguousBuffers(IF ample THEN 2 * MaxBuffers ELSE 3)]
          /\ body = BodyOf(IF ample THEN 2 * MaxBuffers ELSE 3)
          /\ dicts = [id \in ids |-> DictValues(id)]
    /\ arg \in 0..MaxStart
    /\ arg2 \in 0..MaxStart
    /\ op1 = <<>>
    /\ op2 = <<>>
    /\ out = <<>>
    /\ ReaderIdle
    /\ NoReader
    /\ NoFile

\* create_array(nodes, field, data, buffers, dictionaries_by_id, node_index, buffer_index, metadata)
WalkCreateArray ==
    /\ mode = "walk" /\ phase = "idle"
    /\ out' = Call("create_array",
                   create_array(batch.nodes, schema[1], body, batch.buffers, dicts, arg, arg2, version))
    /\ phase' = "done"
    /\ UNCHANGED <<mode, batch_vars, stream_vars, file_vars, op1, op2, arg, arg2>>

\* skip_field(nodes, field, data, buffers, dictionaries_by_id, node_index, buffer_index)
WalkSkipField ==
    /\ mode = "walk" /\ phase = "idle"
    /\ out' = Call("skip_field",
                   skip_field(batch.nodes, schema[1], body, batch.buffers, dicts, arg, arg2))
    /\ phase' = "done"
    /\ UNCHANGED <<mode, batch_vars, stream_vars, file_vars, op1, op2, arg, arg2>>

NextWalk == WalkCreateArray \/ WalkSkipField

SpecWalk == InitWalk /\ [][NextWalk]_vars

(***************************************************************************)
(* union_equal (arrow/src/array/equal/union.rs).  A union is an ArrayData  *)
(* whose buffers are the type ids and, for a dense union, the offsets; a   *)
(* child holds its values in its first buffer.  Option<&Buffer> of nulls   *)
(* is <<>> for None, or one validity bit per slot.  A comparison returns a *)
(* boolean or panics; where it reads the buffers of one type as those of   *)
(* another, every outcome is in the set the operator yields.               *)
(***************************************************************************)
MaxUnionLen == 2      \* slots of a union array

\* lhs && rhs on sets of outcomes: rhs is evaluated where lhs returned true
and_then(lhs, rhs) == (lhs \ {Returned(TRUE)}) \cup (IF Returned(TRUE) \in lhs THEN rhs ELSE {})

\* Iterator::all over the outcomes of the positions 1..n
RECURSIVE all_of(_, _)
all_of(outcomes, k) ==
    IF k > Len(outcomes) THEN {Returned(TRUE)}
    ELSE and_then(outcomes[k], all_of(outcomes, k + 1))

is_valid_at(nulls, i) == nulls = <<>> \/ nulls[i + 1]

\* utils::equal_nulls over the windows
equal_nulls(lhs_nulls, rhs_nulls, lhs_start, rhs_start, len) ==
    IF \A i \in 0..(len - 1) : is_valid_at(lhs_nulls, lhs_start + i) /\ is_valid_at(rhs_nulls, rhs_start + i)
    THEN Returned(TRUE)
    ELSE Returned(\A i \in 0..(len - 1) : is_valid_at(lhs_nulls, lhs_start + i) = is_valid_at(rhs_nulls, rhs_start + i))

\* equal_range(lhs, rhs, lhs_nulls, rhs_nulls, lhs_start, rhs_start, 1) on
\* two children: equal_nulls && equal_values
equal_range(lhs, rhs, lhs_nulls, rhs_nulls, lhs_start, rhs_start) ==
    IF lhs_start >= lhs.len \/ rhs_start >= rhs.len THEN {Panicked}
    ELSE IF lhs.data_type # rhs.data_type THEN {Returned(TRUE), Returned(FALSE), Panicked}
    ELSE IF ~equal_nulls(lhs_nulls, rhs_nulls, lhs_start, rhs_start, 1).value THEN {Returned(FALSE)}
    ELSE IF ~is_valid_at(lhs_nulls, lhs_start) THEN {Returned(TRUE)}
    ELSE {Returned(lhs.buffers[1][lhs_start + 1] = rhs.buffers[1][rhs_start + 1])}

\* utils::child_logical_null_buffer_for_union: the validity of the parent
\* and of the child, slot by slot
child_logical_null_buffer_for_union(parent_nulls, child) ==
    IF parent_nulls = <<>> THEN child.nulls
    ELSE IF child.nulls = <<>> THEN parent_nulls
    ELSE [k \in 1..Len(parent_nulls) |-> parent_nulls[k] /\ child.nulls[k]]

\* equal_types
equal_types(lhs_fields, rhs_fields, lhs_type_ids, rhs_type_ids) ==
    IF \E k \in 1..Len(lhs_type_ids) : lhs_type_ids[k] >= Len(lhs_fields) THEN Panicked
    ELSE IF \E k \in 1..Len(rhs_type_ids) : rhs_type_ids[k] >= Len(rhs_fields) THEN Panicked
    ELSE Returned(\A k \in 1..Len(lhs_type_ids) :
                     k <= Len(rhs_type_ids)
                     => lhs_fields[lhs_type_ids[k] + 1].data_type = rhs_fields[rhs_type_ids[k] + 1].data_type)

child_of(array, type_id) == array.child_data[type_id + 1]

\* equal_dense_sparse reading the dense child at the index of the window
MutDenseAtWindowIndex(lhs, rhs, lhs_type_ids, rhs_type_ids, lhs_offsets, rhs_start) ==
    all_of([index \in 1..Len(lhs_type_ids) |->
               equal_range(child_of(lhs, lhs_type_ids[index]), child_of(rhs, rhs_type_ids[index]),
                           <<>>, <<>>, index - 1, rhs_start + index - 1)], 1)

\* equal_dense_sparse: lhs is the dense union, rhs the sparse one
equal_dense_sparse(lhs, rhs, lhs_type_ids, rhs_type_ids, lhs_offsets, rhs_start) ==
    all_of([index \in 1..Len(lhs_type_ids) |->
               equal_range(child_of(lhs, lhs_type_ids[index]), child_of(rhs, rhs_type_ids[index]),
                           <<>>, <<>>, lhs_offsets[index], rhs_start + index - 1)], 1)

\* equal_dense
equal_dense(lhs, rhs, lhs_type_ids, rhs_type_ids, lhs_offsets, rhs_offsets) ==
    all_of([index \in 1..Len(lhs_type_ids) |->
               equal_range(child_of(lhs, lhs_type_ids[index]), child_of(rhs, rhs_type_ids[index]),
                           <<>>, <<>>, lhs_offsets[index], rhs_offsets[index])], 1)

\* equal_sparse handing no nulls to equal_range
MutSparseIgnoresNulls(lhs, rhs, lhs_nulls, rhs_nulls, lhs_type_ids, rhs_type_ids, lhs_start, rhs_start) ==
    all_of([index \in 1..Len(lhs_type_ids) |->
               equal_range(child_of(lhs, lhs_type_ids[index]), child_of(rhs, rhs_type_ids[index]),
                           <<>>, <<>>, lhs_start + index - 1, rhs_start + index - 1)], 1)

\* equal_sparse
equal_sparse(lhs, rhs, lhs_nulls, rhs_nulls, lhs_type_ids, rhs_type_ids, lhs_start, rhs_start) ==
    all_of([index \in 1..Len(lhs_type_ids) |->
               equal_range(child_of(lhs, lhs_type_ids[index]), child_of(rhs, rhs_type_ids[index]),
                           child_logical_null_buffer_for_union(lhs_nulls, child_of(lhs, lhs_type_ids[index])),
                           child_logical_null_buffer_for_union(rhs_nulls, child_of(rhs, rhs_type_ids[index])),
                           lhs_start + index - 1, rhs_start + index - 1)], 1)

\* &buffer[start..start + len]
window(buffer, start, len) == SubSeq(buffer, start + 1, start + len)

\* union_equal
union_equal(lhs, rhs, lhs_nulls, rhs_nulls, lhs_start, rhs_start, len) ==
    LET lhs_type_ids == lhs.buffers[1]
        rhs_type_ids == rhs.buffers[1]
        lhs_fields == lhs.data_type.children
        rhs_fields == rhs.data_type.children
        types == {equal_types(lhs_fields, rhs_fields, lhs_type_ids, rhs_type_ids)}
    IN  IF lhs_start + len > Len(lhs_type_ids) \/ rhs_start + len > Len(rhs_type_ids) THEN {Panicked}
        ELSE CASE lhs.data_type.umode = "Dense" /\ rhs.data_type.umode = "Dense" ->
                    and_then(types,
                        and_then({equal_nulls(lhs_nulls, rhs_nulls, lhs_start, rhs_start, len)},
                            equal_dense(lhs, rhs, window(lhs_type_ids, lhs_start, len), window(rhs_type_ids, rhs_start, len),
                                        window(lhs.buffers[2], lhs_start, len), window(rhs.buffers[2], rhs_start, len))))
               [] lhs.data_type.umode = "Sparse" /\ rhs.data_type.umode = "Sparse" ->
                    and_then(types,
                        equal_sparse(lhs, rhs, lhs_nulls, rhs_nulls,
                                     window(lhs_type_ids, lhs_start, len), window(rhs_type_ids, rhs_start, len),
                                     lhs_start, rhs_start))
               [] lhs.data_type.umode = "Dense" /\ rhs.data_type.umode = "Sparse" ->
                    and_then(types,
                        equal_dense_sparse(lhs, rhs, window(lhs_type_ids, lhs_start, len), window(rhs_type_ids, rhs_start, len),
                                           window(lhs.buffers[2], lhs_start, len), rhs_start))
               [] lhs.data_type.umode = "Sparse" /\ rhs.data_type.umode = "Dense" ->
                    and_then(types,
                        equal_dense_sparse(rhs, lhs, window(rhs_type_ids, rhs_start, len), window(lhs_type_ids, lhs_start, len),
                                           window(rhs.buffers[2], rhs_start, len), lhs_start))

\* The unions of the calls: two variants, of one type or of two; the slots
\* of the first child of a sparse union all hold 7, those of the second all
\* the same value, with or without a null in the first slot; a dense child
\* holds two values.
Variants == { <<Field("x", Int64T, 0), Field("y", Int64T, 0)>>, <<Field("x", Int64T, 0), Field("y", Utf8T, 0)>> }
TypeIds == [1..MaxUnionLen -> {0, 1}]
Child(data_type, values, nulls) == ArrayData(data_type, Len(values), <<values>>, nulls, <<>>)

\* validity bits with one null, in the first or in the last slot
FirstNull == [k \in 1..MaxUnionLen |-> k # 1]
LastNull == [k \in 1..MaxUnionLen |-> k # MaxUnionLen]
ParentNulls == {<<>>, FirstNull, LastNull}

SparseUnions ==
    { ArrayData(UnionT(fs, "Sparse"), MaxUnionLen, <<ids>>, <<>>,
                << Child(fs[1].data_type, [k \in 1..MaxUnionLen |-> 7], <<>>),
                   Child(fs[2].data_type, [k \in 1..MaxUnionLen |-> v], ns) >>) :
        fs \in Variants, ids \in TypeIds, v \in {7, 8}, ns \in {<<>>, FirstNull} }

DenseOffsets == { [k \in 1..MaxUnionLen |-> 0], [k \in 1..MaxUnionLen |-> 1], [k \in 1..MaxUnionLen |-> k % 2], [k \in 1..MaxUnionLen |-> (k + 1) % 2] }

DenseUnions ==
    { ArrayData(UnionT(fs, "Dense"), MaxUnionLen, <<ids, offsets>>, <<>>,
                << Child(fs[1].data_type, <<7, 8>>, <<>>), Child(fs[2].data_type, <<8, 7>>, <<>>) >>) :
        fs \in Variants, ids \in TypeIds, offsets \in DenseOffsets }

Unions == SparseUnions \cup DenseUnions

\* a union whose variants are all of one type
OneTyped(u) == \A k \in 1..Len(u.data_type.children) : u.data_type.children[k].data_type = Int64T

Side(array, nulls, start) == [array |-> array, nulls |-> nulls, start |-> start]

\* Any two unions without parent nulls, or two unions of the same mode and
\* of one type with parent nulls on a side.
UnionCall(lhs, rhs, lhs_nulls, rhs_nulls) ==
    \/ lhs_nulls = <<>> /\ rhs_nulls = <<>>
    \/ /\ lhs.data_type.umode = rhs.data_type.umode
       /\ OneTyped(lhs)
       /\ OneTyped(rhs)

InitUnion ==
    /\ mode = "union"
    /\ phase = "idle"
    /\ \E lhs \in Unions, rhs \in Unions, ln \in ParentNulls, rn \in ParentNulls :
       \E len \in 0..MaxUnionLen :
       \E lhs_start \in 0..(MaxUnionLen - len), rhs_start \in 0..(MaxUnionLen - len) :
          /\ UnionCall(lhs, rhs, ln, rn)
          /\ op1 = Side(lhs, ln, lhs_start)
          /\ op2 = Side(rhs, rn, rhs_start)
          /\ arg = len
    /\ arg2 = 0
    /\ out = <<>>
    /\ schema = <<>>
    /\ dicts = <<>>
    /\ NoBatchCall
    /\ NoReader
    /\ NoFile

\* union_equal(lhs, rhs, lhs_nulls, rhs_nulls, lhs_start, rhs_start, len)
UnionEqual ==
    /\ mode = "union" /\ phase = "idle"
    /\ \E o \in union_equal(op1.array, op2.array, op1.nulls, op2.nulls, op1.start, op2.start, arg) :
          out' = Call("union_equal", o)
    /\ phase' = "done"
    /\ UNCHANGED <<mode, batch_vars, stream_vars, file_vars, op1, op2, arg, arg2>>

NextUnion == UnionEqual

SpecUnion == InitUnion /\ [][NextUnion]_vars

(***************************************************************************)
(* regexp_match (arrow-string/src/regexp.rs).  A string is a sequence of   *)
(* characters, a string array a sequence of optional strings, a Datum an   *)
(* array together with the mark of a scalar.  The regex crate is modelled  *)
(* for the patterns the calls build here: an optional leading flag group   *)
(* (?flags) followed by literal characters.                                *)
(***************************************************************************)
MaxValues == 2        \* rows of the input array
MaxPattern == 2       \* characters of a pattern

NoStr == [some |-> FALSE, v |-> <<>>]
SomeStr(s) == [some |-> TRUE, v |-> s]

Datum(array, is_scalar, data_type) == [array |-> array, is_scalar |-> is_scalar, data_type |-> data_type]
NoDatum == [array |-> <<>>, is_scalar |-> FALSE, data_type |-> "None"]

Letters == {"a", "A", "i"}
RegexFlags == {"i", "m", "s", "U", "u", "x"}

\* the simple case folding of the regex crate
fold(c) == IF c = "A" THEN "a" ELSE c

\* First position of ")" in the pattern, 0 when there is none.
closing(pattern) ==
    IF \E k \in 1..Len(pattern) : pattern[k] = ")"
    THEN CHOOSE k \in 1..Len(pattern) : pattern[k] = ")" /\ \A j \in 1..(k - 1) : pattern[j] # ")"
    ELSE 0

Regex(pattern, icase, lit) == [pattern |-> pattern, icase |-> icase, lit |-> lit]

\* Regex::new(pattern): a flag group with an unknown flag, or without a
\* flag or its closing parenthesis, does not compile.
regex_new(pattern) ==
    IF Len(pattern) >= 2 /\ pattern[1] = "(" /\ pattern[2] = "?"
    THEN IF closing(pattern) <= 3 THEN Failed("Regular expression did not compile")
         ELSE IF \E k \in 3..(closing(pattern) - 1) : pattern[k] \notin RegexFlags
         THEN Failed("Regular expression did not compile")
         ELSE IF \E k \in (closing(pattern) + 1)..Len(pattern) : pattern[k] \notin Letters
         THEN Failed("Regular expression did not compile")
         ELSE Returned(Regex(pattern,
                             \E k \in 3..(closing(pattern) - 1) : pattern[k] = "i",
                             SubSeq(pattern, closing(pattern) + 1, Len(pattern))))
    ELSE IF \E k \in 1..Len(pattern) : pattern[k] \notin Letters
    THEN Failed("Regular expression did not compile")
    ELSE Returned(Regex(pattern, FALSE, pattern))

\* Does the literal of `re` match `value` at position p?
matches_at(re, value, p) ==
    /\ p + Len(re.lit) - 1 <= Len(value)
    /\ \A k \in 1..Len(re.lit) :
          IF re.icase THEN fold(value[p + k - 1]) = fold(re.lit[k])
          ELSE value[p + k - 1] = re.lit[k]

\* One element of the list array the kernels build.
ListNull == [valid |-> FALSE, values |-> <<>>]
ListOf(values) == [valid |-> TRUE, values |-> values]

\* re.captures(value): the leftmost match; a pattern without groups has the
\* whole match as its only capture.
captures(re, value) ==
    IF \E p \in 1..(Len(value) + 1) : matches_at(re, value, p)
    THEN LET p == CHOOSE q \in 1..(Len(value) + 1) :
                     matches_at(re, value, q) /\ \A j \in 1..(q - 1) : ~matches_at(re, value, j)
         IN  ListOf(<<SubSeq(value, p, p + Len(re.lit) - 1)>>)
    ELSE ListNull

\* format!("(?{x}){y}")
flag_group(x, y) == <<"(", "?">> \o x \o <<")">> \o y

\* regexp_scalar_match: one list element per row
regexp_scalar_match(array, regex) ==
    Returned([k \in 1..Len(array) |->
                 IF ~array[k].some THEN ListNull
                 ELSE IF regex.pattern = <<>> THEN ListOf(<< <<>> >>)
                 ELSE captures(regex, array[k].v)])

\* complete_pattern of regexp_array_match, row k
complete_pattern(regex_array, flags_array, k) ==
    IF ~regex_array[k].some THEN NoStr
    ELSE IF flags_array = <<>> THEN regex_array[k]
    ELSE IF flags_array[k].some THEN SomeStr(flag_group(flags_array[k].v, regex_array[k].v))
    ELSE regex_array[k]

\* Rows of the two zips of regexp_array_match
zipped_rows(array, regex_array, flags_array) ==
    IF flags_array = <<>> THEN IF Len(array) <= Len(regex_array) THEN Len(array) ELSE Len(regex_array)
    ELSE IF Len(array) <= Len(regex_array) /\ Len(array) <= Len(flags_array) THEN Len(array)
    ELSE IF Len(regex_array) <= Len(flags_array) THEN Len(regex_array)
    ELSE Len(flags_array)

\* regexp_array_match, row k: a pattern is compiled when its row has a value
array_match_row(value, pattern) ==
    IF value.some /\ pattern.some /\ pattern.v = <<>> THEN Returned(ListOf(<< <<>> >>))
    ELSE IF value.some /\ pattern.some
    THEN IF regex_new(pattern.v).st # "Ok" THEN regex_new(pattern.v)
         ELSE Returned(captures(regex_new(pattern.v).value, value.v))
    ELSE Returned(ListNull)

\* regexp_array_match (flags_array = <<>> stands for None)
regexp_array_match(array, regex_array, flags_array) ==
    LET n == zipped_rows(array, regex_array, flags_array)
        row(k) == array_match_row(array[k], complete_pattern(regex_array, flags_array, k))
    IN  IF \E k \in 1..n : row(k).st # "Ok"
        THEN row(CHOOSE k \in 1..n : row(k).st # "Ok" /\ \A j \in 1..(k - 1) : row(j).st = "Ok")
        ELSE Returned([k \in 1..n |-> row(k).value])

\* get_scalar_pattern_flag: regex.value(0), and flag.value(0) if it is valid
get_scalar_pattern_flag(regex_array, flag_array) ==
    [regex |-> regex_array.array[1].v,
     flag  |-> IF flag_array # NoDatum /\ flag_array.array[1].some THEN flag_array.array[1] ELSE NoStr]

\* the scalar pattern built as the array branch builds it
MutScalarPatternAsArray(regex, flag) == IF flag.some THEN flag_group(flag.v, regex) ELSE regex

\* let pattern = if let Some(flag) = flag { format!("(?{regex}){flag}") } else { regex.to_string() }
scalar_pattern(regex, flag) ==
    IF flag.some THEN flag_group(regex, flag.v) ELSE regex

\* regexp_match (flags_array = NoDatum stands for None)
regexp_match(array, regex_array, flags_array) ==
    IF array.is_scalar
    THEN Failed("regexp_match() requires array to be either Utf8 or LargeUtf8 array instead of scalar")
    ELSE IF flags_array # NoDatum /\ regex_array.is_scalar # flags_array.is_scalar
    THEN Failed("regexp_match() requires both pattern and flags to be either scalar or array")
    ELSE IF flags_array # NoDatum /\ regex_array.data_type # flags_array.data_type
    THEN Failed("regexp_match() requires both pattern and flags to be either string or largestring")
    ELSE IF regex_array.is_scalar
    THEN LET sc == get_scalar_pattern_flag(regex_array, flags_array)
             re == regex_new(scalar_pattern(sc.regex, sc.flag))
         IN  IF re.st # "Ok" THEN re
             ELSE regexp_scalar_match(array.array, re.value)
    ELSE IF array.data_type # regex_array.data_type THEN Panicked
    ELSE regexp_array_match(array.array, regex_array.array,
                            IF flags_array = NoDatum THEN <<>> ELSE flags_array.array)

\* The inputs: arrays of a few values, patterns and flags of a few letters.
Values == {NoStr, SomeStr(<<>>), SomeStr(<<"a">>), SomeStr(<<"A">>), SomeStr(<<"i", "a">>)}
Patterns == { s \in UNION { [1..n -> {"a", "i"}] : n \in 0..MaxPattern } : TRUE }
FlagStrings == { <<"i">>, <<"a">>, <<"s">> }
StringTypes == {"Utf8", "LargeUtf8"}

ValueArrays == UNION { [1..n -> Values] : n \in 0..MaxValues }

Repeated(x, n) == [k \in 1..n |-> x]

InitRegexp ==
    /\ mode = "regexp"
    /\ phase = "idle"
    /\ \E values \in ValueArrays, t1 \in StringTypes, t2 \in StringTypes, sc \in BOOLEAN, p \in Patterns :
          /\ \/ op1 = Datum(values, FALSE, t1)
             \/ Len(values) = 1 /\ op1 = Datum(values, TRUE, t1)
          /\ \/ op2 = [regex |-> Datum(Repeated(SomeStr(p), IF sc THEN 1 ELSE Len(values)), sc, t2), flags |-> NoDatum]
             \/ \E f \in FlagStrings, t3 \in StringTypes, fsc \in BOOLEAN :
                   op2 = [regex |-> Datum(Repeated(SomeStr(p), IF sc THEN 1 ELSE Len(values)), sc, t2),
                          flags |-> Datum(Repeated(SomeStr(f), IF fsc THEN 1 ELSE Len(values)), fsc, t3)]
    /\ arg = 0
    /\ arg2 = 0
    /\ out = <<>>
    /\ schema = <<>>
    /\ dicts = <<>>
    /\ NoBatchCall
    /\ NoReader
    /\ NoFile

\* regexp_match(&array, &regex_array, flags_array)
RegexpMatch ==
    /\ mode = "regexp" /\ phase = "idle"
    /\ out' = Call("regexp_match", regexp_match(op1, op2.regex, op2.flags))
    /\ phase' = "done"
    /\ UNCHANGED <<mode, batch_vars, stream_vars, file_vars, op1, op2, arg, arg2>>

NextRegexp == RegexpMatch

SpecRegexp == InitRegexp /\ [][NextRegexp]_vars

(***************************************************************************)
(* Claims about the StreamReader.                                          *)
(***************************************************************************)
\* Where the k-th message of the wire ends in the source.
ItemEnd(w, k) == w.ends[k]

\* The messages the reader has read completely when its position is `at`.
Consumed(w, at) == { k \in 1..Len(w.items) : ItemEnd(w, k) <= at }

\* A dictionary message that read_dictionary accepts on the reader's schema.
SuccessfullyRead(item) ==
    /\ item.msg.header_type = "DictionaryBatch"
    /\ read_dictionary(item.body, item.msg, ReaderSchema, <<>>, item.msg.version).st = "Ok"

ValuesOf(item) ==
    read_dictionary(item.body, item.msg, ReaderSchema, <<>>, item.msg.version).dicts[item.msg.id]

Latest(S) == CHOOSE k \in S : \A j \in S : j <= k

\* For each id, the values of the most recent successfully read dictionary
\* message with that id, in wire order.
ExpectedRegistry(w, at) ==
    LET read == { k \in Consumed(w, at) : SuccessfullyRead(w.items[k]) }
        ids == { w.items[k].msg.id : k \in read }
    IN  [id \in ids |-> ValuesOf(w.items[Latest({ k \in read : w.items[k].msg.id = id })])]

\* C3: whenever a call of StreamReader::next() has returned None,
\* is_finished() is true immediately afterwards.
C3_NoneImpliesFinished ==
    (mode = "stream" /\ phase = "open" /\ result.st = "None") => finished

\* C4: once the StreamReader is finished, every later call of next() returns
\* None, leaves the read position and the dictionary registry as they were,
\* and finished stays true.
C4_FinishedIsFinal ==
    [][ (mode = "stream" /\ finished)
        => (finished' /\ pos' = pos /\ dicts' = dicts /\ result'.st = "None") ]_vars

\* A call of next() was made on a finished reader with bytes left to read.
C4_Witness ==
    /\ mode = "stream"
    /\ h_finished
    /\ result.st = "None"
    /\ pos < Len(source)

\* C8: in a stream the registry holds, for each dictionary id, the values of
\* the most recent successfully read dictionary message with that id (a later
\* message replaces the earlier values, other ids are unchanged), and every
\* record batch returned is decoded against exactly these values.
C8_MostRecentDictionary ==
    (mode = "stream" /\ phase = "open")
    => LET expected == ExpectedRegistry(wire, pos)
       IN  /\ dicts = expected
           /\ result.st = "Some"
              => \A c \in 1..Len(result.batch.columns) :
                    result.batch.columns[c].child_data = <<expected[schema[c].dict_id]>>

\* A batch was returned after two dictionary messages with the same id and
\* different values, and a dictionary message with another id before them.
C8_Witness ==
    /\ mode = "stream"
    /\ result.st = "Some"
    /\ \E i, j, k \in Consumed(wire, pos) :
          /\ i < j /\ j < k
          /\ SuccessfullyRead(wire.items[i]) /\ wire.items[i].msg.id = 2
          /\ SuccessfullyRead(wire.items[j]) /\ wire.items[j].msg.id = 1
          /\ SuccessfullyRead(wire.items[k]) /\ wire.items[k].msg.id = 1
          /\ wire.items[j].body # wire.items[k].body

(***************************************************************************)
(* Claims about the FileReader and about delta dictionaries.               *)
(***************************************************************************)
\* For each id, the values of the last of the dictionary blocks with that id.
FileRegistry(w) ==
    LET Of(id) == { k \in 1..Len(w.dictionaries) : SuccessfullyRead(w.dictionaries[k]) /\ w.dictionaries[k].msg.id = id }
    IN  [id \in { i \in 1..3 : Of(i) # {} } |-> ValuesOf(w.dictionaries[Latest(Of(id))])]

\* A file as the writer produces it: every dictionary block is a dictionary of
\* the schema, every dictionary of the schema is there, every record-batch
\* block is a record batch, and all messages carry the footer's version.
WellFormedFile(w) ==
    /\ \A k \in 1..Len(w.records) :
          w.records[k].msg.header_type = "RecordBatch" /\ w.records[k].msg.version = w.version
    /\ \A k \in 1..Len(w.dictionaries) :
          w.dictionaries[k].msg.version = w.version /\ SuccessfullyRead(w.dictionaries[k])
    /\ \A c \in 1..Len(ReaderSchema) :
          \E k \in 1..Len(w.dictionaries) : w.dictionaries[k].msg.id = ReaderSchema[c].dict_id

\* The batch of record-batch block k - 1 (the k-th of the footer).
ExpectedBatch(w, k) ==
    read_record_batch(w.records[k].body, w.records[k].msg.batch, ReaderSchema, FileRegistry(w), <<>>, w.records[k].msg.version)

\* C5: on a freshly opened FileReader over a well-formed file with n
\* record-batch blocks, the k-th call of next() (k = 1..n) returns the batch of
\* footer block k - 1, the (n+1)-th call returns None, and num_batches() is n
\* throughout.
C5_FileOrder ==
    (mode = "file" /\ phase = "open" /\ WellFormedFile(wire))
    => /\ total_blocks = Len(wire.records)
       /\ (h_op.sets = 0 /\ calls >= 1 /\ calls <= Len(wire.records))
          => LET expected == ExpectedBatch(wire, calls)
             IN  expected.st = "Ok" /\ result = SomeBatch(expected)
       /\ (h_op.sets = 0 /\ calls = Len(wire.records) + 1) => result.st = "None"

\* All blocks of a file with different batches were read in turn, and the call
\* after the last one has returned None.
C5_Witness ==
    /\ mode = "file"
    /\ WellFormedFile(wire)
    /\ Len(wire.records) > 1
    /\ wire.records[1].body # wire.records[2].body
    /\ h_op.sets = 0
    /\ calls = Len(wire.records) + 1
    /\ result.st = "None"

\* C6: set_index(i) with i < num_batches() returns Ok and the next call of
\* next() reads block i; with i >= num_batches() it returns an error and
\* leaves the reader as it was, so the following next() is not affected.
C6_SetIndex ==
    [][ (mode = "file" /\ phase = "open")
        => /\ (h_op'.sets = h_op.sets + 1)
              => IF h_op'.index < total_blocks
                 THEN h_op'.st = "Ok"
                 ELSE /\ h_op'.st = "Err"
                      /\ UNCHANGED <<current_block, total_blocks, blocks, dicts, schema, metadata_version, source, pos, result>>
           /\ (h_op.op = "set_index" /\ h_op.st = "Ok" /\ calls' = calls + 1)
              => /\ current_block' = h_op.index + 1
                 /\ WellFormedFile(wire) => result' = SomeBatch(ExpectedBatch(wire, h_op.index + 1)) ]_vars

\* After both blocks of a file with different batches were read, set_index(0)
\* was called and the next call of next() has returned the first batch again.
C6_Witness ==
    /\ mode = "file"
    /\ WellFormedFile(wire)
    /\ Len(wire.records) > 1
    /\ wire.records[1].body # wire.records[2].body
    /\ h_op = Op("next", 0, "after set_index", 1)
    /\ calls = 3
    /\ result = SomeBatch(ExpectedBatch(wire, 1))

\* The message that ends where the stream reader stands.
EndsAt(w, at) == { k \in 1..Len(w.items) : ItemEnd(w, k) = at }

IsDelta(item) == item.msg.header_type = "DictionaryBatch" /\ item.msg.isDelta

\* C7: read_dictionary on a dictionary batch with isDelta set returns an error
\* and leaves the registry as it was; a file with such a dictionary block
\* fails to open, and the next() call of a stream reader that meets such a
\* message returns that error.
C7_DeltaRejected ==
    [][ /\ (mode \in {"stream", "file"})
           => \A id \in 1..3, b \in DictBodies :
                 read_dictionary(b, DeltaMessage(id), ReaderSchema, dicts, V5) = DictErr(dicts, "delta dictionary batches not supported")
        /\ (mode = "stream" /\ pos' > pos /\ \E k \in EndsAt(wire, pos') : IsDelta(wire.items[k]))
           => /\ result' = ErrResult("delta dictionary batches not supported")
              /\ dicts' = ExpectedRegistry(wire, pos')
        /\ (mode = "file" /\ phase = "closed" /\ phase' # "closed"
              /\ \E k \in 1..Len(wire.dictionaries) : IsDelta(wire.dictionaries[k]))
           => phase' = "failed" ]_vars

\* A stream reader with a dictionary in its registry has met a delta
\* dictionary message.
C7_Witness ==
    /\ mode = "stream"
    /\ result = ErrResult("delta dictionary batches not supported")
    /\ dicts # <<>>
    /\ \E k \in EndsAt(wire, pos) : IsDelta(wire.items[k])

(***************************************************************************)
(* Claims about streams that break off or fail.                            *)
(***************************************************************************)
\* Where the last message of the wire starts, and where its metadata starts.
LastStart(w) == IF Len(w.items) = 1 THEN 0 ELSE w.ends[Len(w.items) - 1]

LastMetadata(w) == LastStart(w) + Len(Prefix(w.marker, MetaLen))

\* The source ends after the complete non-zero length prefix of the last
\* message and before the end of that message.
EndsInsideMessage(w, src) ==
    /\ w.items[Len(w.items)].msg # EndOfStream
    /\ Len(src) >= LastMetadata(w)
    /\ Len(src) < w.ends[Len(w.items)]
    /\ \A k \in 1..Len(src) : src[k] # IoFault

\* C11: when the stream ends inside the metadata or the body of a message,
\* the call of next() that reads this message returns an error: neither a
\* batch nor the end of the stream, and finished is not set.
C11_TruncatedIsError ==
    [][ ( /\ mode = "stream" /\ phase = "open"
          /\ EndsInsideMessage(wire, source)
          /\ calls' = calls + 1
          /\ pos <= LastStart(wire) /\ pos' > LastStart(wire) )
        => (result'.st = "Err" /\ ~finished') ]_vars

\* A call of next() has met a record batch message whose body is cut short.
C11_Witness ==
    /\ mode = "stream"
    /\ calls > 0
    /\ EndsInsideMessage(wire, source)
    /\ wire.items[Len(wire.items)].msg.header_type = "RecordBatch"
    /\ Len(source) >= LastMetadata(wire) + MetaLen
    /\ pos = Len(source)
    /\ result.st = "Err"
    /\ ~finished

\* C12: when the source is exhausted exactly where the next length prefix
\* would start, next() returns None and sets finished; an I/O error other
\* than UnexpectedEof on that read is returned as an error and finished stays
\* false.
C12_EofAtPrefix ==
    [][ (mode = "stream" /\ phase = "open" /\ ~finished /\ calls' = calls + 1)
        => /\ pos = Len(source) => (result'.st = "None" /\ finished')
           /\ (pos < Len(source) /\ source[pos + 1] = IoFault)
              => (result'.st = "Err" /\ ~finished') ]_vars

\* A call of next() has met an I/O error on the first byte of a length
\* prefix, after an earlier call that returned a batch or an error.
C12_Witness ==
    /\ mode = "stream"
    /\ calls > 1
    /\ pos \in { wire.ends[k] : k \in 1..Len(wire.items) }
    /\ pos < Len(source)
    /\ source[pos + 1] = IoFault
    /\ result = ErrResult("i/o error")
    /\ ~finished

(***************************************************************************)
(* Claims about the continuation marker.                                   *)
(***************************************************************************)
\* The same messages written the other way: without the continuation
\* marker if the wire has it, with it if the wire has none.
TwinStream(w) == EncodeAll(w.items, ~w.marker)

TwinFile(w) == EncodeFile([w EXCEPT !.marker = ~w.marker])

\* The position in the twin stream after the messages read up to `at`.
TwinPos(w, at) ==
    Len(EncodeAll(SubSeq(w.items, 1, Cardinality(Consumed(w, at))), ~w.marker))

\* C13: at every message position (schema message and data messages of a
\* stream, dictionary blocks and record-batch blocks of a file) the reader
\* returns the same results for a source written with the continuation marker
\* as for the same messages written without it, a marker before a zero length
\* included: each step of a reader is matched by the same step on the twin.
C13_MarkerIsTransparent ==
    [][ /\ (mode = "stream" /\ phase = "closed" /\ phase' # "closed")
           => LET t == stream_try_new(TwinStream(wire))
              IN  /\ (t.st = "Ok") = (phase' = "open")
                  /\ t.schema = schema'
                  /\ t.pos = TwinPos(wire, pos')
        /\ (mode = "stream" /\ calls' = calls + 1)
           => LET t == stream_maybe_next(TwinStream(wire), TwinPos(wire, pos), finished, dicts, schema, projection)
              IN  /\ t.res = result'
                  /\ t.finished = finished'
                  /\ t.dicts = dicts'
                  /\ t.pos = TwinPos(wire, pos')
        /\ (mode = "file" /\ phase = "closed" /\ phase' # "closed")
           => LET t == file_try_new(TwinFile(wire))
              IN  /\ (t.st = "Ok") = (phase' = "open")
                  /\ (t.st = "Err") = (phase' = "failed")
                  /\ t.schema = schema'
                  /\ t.dicts = dicts'
                  /\ t.total_blocks = total_blocks'
                  /\ t.metadata_version = metadata_version'
        /\ (mode = "file" /\ calls' = calls + 1 /\ has_next_block(current_block, total_blocks))
           => LET t == file_try_new(TwinFile(wire))
              IN  file_maybe_next(TwinFile(wire), t.blocks, current_block, t.dicts, t.schema, projection, t.metadata_version).res = result' ]_vars

\* A stream written with continuation markers was read to its end-of-stream
\* message (a marker before a zero length) after a record batch message.
C13_Witness ==
    /\ mode = "stream"
    /\ wire.marker
    /\ calls > 1
    /\ finished
    /\ ~h_finished
    /\ \E k \in EndsAt(wire, pos) : wire.items[k].msg = EndOfStream
    /\ \E k \in Consumed(wire, pos) : wire.items[k].msg = BatchMessage

(***************************************************************************)
(* Claims about the version check and the message headers.                 *)
(***************************************************************************)
\* C14: FileReader::next() returns an error and no batch when the version of
\* the block's message differs from the footer's version and the footer's
\* version is not V1; under a V1 footer a message of any version passes the
\* check.
C14_VersionCheck ==
    [][ (mode = "file" /\ calls' = calls + 1 /\ has_next_block(current_block, total_blocks))
        => LET message == wire.records[current_block + 1].msg
           IN  /\ (wire.version # V1 /\ message.version # wire.version) => result' = VersionError
               /\ (wire.version = V1) => result' # VersionError
               /\ (wire.version = V1 /\ message.header_type = "RecordBatch" /\ DOMAIN dicts = {1, 2})
                  => result'.st = "Some" ]_vars

\* The first call of next() on a file with a V5 footer has met a V4 message.
C14_Witness ==
    /\ mode = "file"
    /\ phase = "open"
    /\ calls = 1
    /\ h_op.sets = 0
    /\ wire.version = V5
    /\ Len(wire.records) >= 1
    /\ wire.records[1].msg.version = V4
    /\ result = VersionError

SchemaError == ErrResult("Not expecting a schema when messages are read")
OtherHeaderError == ErrResult("Reading types other than record batches not yet supported")

\* The message at which a call of StreamReader::next() stopped: the one whose
\* last byte is the last byte the call consumed.
StreamStopsAt(k) == pos' > pos /\ pos' = wire.ends[k]

\* C15: a Schema message among the data messages is an error in both
\* readers; the file reader returns an error for every header other than
\* RecordBatch and NONE, DictionaryBatch included, and the stream reader for
\* every header other than RecordBatch, DictionaryBatch and NONE; none of them
\* returns a batch.
C15_OtherHeadersAreErrors ==
    [][ /\ (mode = "file" /\ calls' = calls + 1 /\ has_next_block(current_block, total_blocks))
           => LET message == wire.records[current_block + 1].msg
              IN  /\ message.header_type \notin {"RecordBatch", "NONE"} => result'.st = "Err"
                  /\ (message.header_type = "Schema" /\ ~versions_mismatch(wire.version, message.version))
                     => result' = SchemaError
                  /\ (message.header_type \notin {"Schema", "RecordBatch", "NONE"}
                         /\ ~versions_mismatch(wire.version, message.version))
                     => result' = OtherHeaderError
        /\ (mode = "stream" /\ calls' = calls + 1)
           => /\ \A k \in 2..Len(wire.items) :
                    StreamStopsAt(k)
                    => LET message == wire.items[k].msg
                       IN  /\ message.header_type \notin {"RecordBatch", "DictionaryBatch", "NONE", "EOS"}
                              => result'.st = "Err"
                           /\ message.header_type = "Schema" => result' = SchemaError
                           /\ message.header_type \in {"Tensor", "SparseTensor"} => result' = OtherHeaderError
              /\ \A k \in 2..Len(wire.items) :
                    (~finished /\ pos = wire.ends[k - 1]
                        /\ wire.items[k].msg.header_type \in {"Schema", "Tensor", "SparseTensor"})
                    => StreamStopsAt(k) /\ result'.st = "Err" ]_vars

\* The first call of next() on a file whose first record block holds a
\* dictionary batch of the footer's version has returned the error of the
\* catch-all arm.
C15_Witness ==
    /\ mode = "file"
    /\ phase = "open"
    /\ calls = 1
    /\ h_op.sets = 0
    /\ wire.version = V5
    /\ Len(wire.records) >= 1
    /\ wire.records[1].msg.header_type = "DictionaryBatch"
    /\ result = OtherHeaderError

LogicalBit(bm, i) == get_bit_raw(bm.bits, 0, bm.offset + i)

\* C17: for a Bitmap of offset o and length n and every i < n, is_set(i)
\* returns the bit of the buffer at byte (o + i) >> 3, bit (o + i) & 7;
\* is_set(i) panics for i >= n.
C17_IsSet ==
    (mode = "bitmap" /\ out # <<>> /\ out.op = "is_set")
    => IF arg < op1.length
       THEN out.res = Returned(LogicalBit(op1, arg))
       ELSE out.res = Panicked

\* C18: for bitmaps whose bit lengths differ, both & and | return an error,
\* whatever the byte lengths of the buffers.
C18_ShapeMismatch ==
    (mode = "bitmap" /\ out # <<>> /\ out.op \in {"and", "or"} /\ op1.length # op2.length)
    => out.res.st = "Err"

\* C19: for bitmaps of equal bit length n, & and | succeed and return a
\* bitmap of offset 0 and length n whose bit i is the AND (OR) of the bits i
\* of the operands, whatever the offsets and the buffer sizes; the operands
\* are unchanged.
C19_AndOr ==
    (mode = "bitmap" /\ out # <<>> /\ out.op \in {"and", "or"} /\ op1.length = op2.length)
    => /\ out.res.st = "Ok"
       /\ out.res.value.offset = 0
       /\ out.res.value.length = op1.length
       /\ \A i \in 0..(op1.length - 1) :
             LogicalBit(out.res.value, i)
                = IF out.op = "and"
                  THEN LogicalBit(op1, i) /\ LogicalBit(op2, i)
                  ELSE LogicalBit(op1, i) \/ LogicalBit(op2, i)

\* C20: two bitmaps compare equal iff their bit lengths are equal and their
\* logical bits are equal at every index below that length; the comparison
\* does not panic.
C20_Eq ==
    (mode = "bitmap" /\ out # <<>> /\ out.op = "eq")
    => out.res = Returned(/\ op1.length = op2.length
                          /\ \A i \in 0..(op1.length - 1) : LogicalBit(op1, i) = LogicalBit(op2, i))

\* C21: for a bitmap of offset o and length n and every range with
\* off + len <= n, count_set_bits_offset(off, len) returns the number of
\* 1-bits among the bits o + off .. o + off + len - 1 of the buffer; it
\* panics iff off + len > n.
C21_CountSetBits ==
    (mode = "bitmap" /\ out # <<>> /\ out.op = "count_set_bits_offset")
    => IF arg + arg2 <= op1.length
       THEN out.res = Returned(Cardinality({ i \in 0..(arg2 - 1) : LogicalBit(op1, arg + i) }))
       ELSE out.res = Panicked

\* A count over a range that starts inside a byte and ends in the next one,
\* on a bitmap with an offset.
C21_Witness ==
    /\ mode = "bitmap" /\ out # <<>> /\ out.op = "count_set_bits_offset"
    /\ op1.offset >= 1 /\ arg >= 1 /\ arg2 >= 2
    /\ op1.offset + arg < 8 /\ op1.offset + arg + arg2 > 8
    /\ out.res.st = "Ok" /\ out.res.value >= 1 /\ out.res.value < arg2

\* C22: for every bitmap bm and all a, b with a + b <= bm.bit_len(),
\* bm.slice(a).slice(b) and bm.slice(a + b) have the same bit length and the
\* same bit at every index, and the two compare equal.
C22_SliceComposition ==
    (mode = "bitmap" /\ out # <<>> /\ out.op = "slice_twice")
    => /\ out.res.twice.length = out.res.once.length
       /\ \A i \in 0..(out.res.once.length - 1) :
             LogicalBit(out.res.twice, i) = LogicalBit(out.res.once, i)
       /\ out.res.equal = Returned(TRUE)

\* The part of C22 that does not go through the comparison.
C22_SameContent ==
    (mode = "bitmap" /\ out # <<>> /\ out.op = "slice_twice")
    => /\ out.res.twice = out.res.once
       /\ out.res.equal \in {Returned(TRUE), Panicked}

C24_BitLenIsCapacity ==
    (mode = "bitmap" /\ out # <<>> /\ out.op = "new")
    => /\ bit_len(out.res.value) = 8 * 64 * ((((arg + 7) \div 8) + 63) \div 64)
       /\ arg = 63 * 8 => bit_len(out.res.value) = 512
       /\ arg = 64 * 8 => bit_len(out.res.value) = 512
       /\ arg = 65 * 8 => bit_len(out.res.value) = 1024

\* offset_bits + length_bits <= 8 * (byte length of the buffer)
WithinBuffer(bm) == bm.offset + bm.length <= 8 * Len(bm.bits)

slot_type(side, i) == side.array.data_type.children[side.array.buffers[1][side.start + i + 1] + 1].data_type

\* the logical types of the two windows agree slot by slot
window_types_equal(lhs, rhs, len) == \A i \in 0..(len - 1) : slot_type(lhs, i) = slot_type(rhs, i)

\* the unions that differ from the array of a side at most in the type ids
\* outside its window
same_window(side, len) ==
    { u \in Unions :
        /\ u = [side.array EXCEPT !.buffers[1] = u.buffers[1]]
        /\ \A i \in 0..(len - 1) : u.buffers[1][side.start + i + 1] = side.array.buffers[1][side.start + i + 1] }

\* C29: the logical-type check of union_equal depends only on the type ids
\* inside the two windows: a mismatch of the types selected at some i < len
\* makes the result false, and replacing type ids outside the windows
\* leaves the outcomes of the call as they are.
C29_TypesOfWindows ==
    (mode = "union" /\ out # <<>>)
    => /\ (~window_types_equal(op1, op2, arg) => out.res = Returned(FALSE))
       /\ \A l \in same_window(op1, arg), r \in same_window(op2, arg) :
             union_equal(l, r, op1.nulls, op2.nulls, op1.start, op2.start, arg)
             = union_equal(op1.array, op2.array, op1.nulls, op2.nulls, op1.start, op2.start, arg)

\* the element of the dense side at offsets[start + i] of the selected child
dense_element(side, i) ==
    LET a == side.array
    IN  child_of(a, a.buffers[1][side.start + i + 1]).buffers[1][a.buffers[2][side.start + i + 1] + 1]

\* the element of the sparse side at start + i of the selected child
sparse_element(side, i) ==
    LET a == side.array
    IN  child_of(a, a.buffers[1][side.start + i + 1]).buffers[1][side.start + i + 1]

is_cross_mode == mode = "union" /\ op1.array.data_type.umode # op2.array.data_type.umode
dense_side == IF op1.array.data_type.umode = "Dense" THEN op1 ELSE op2
sparse_side == IF op1.array.data_type.umode = "Dense" THEN op2 ELSE op1

\* C30: a dense and a sparse union compare the same in both argument
\* orders, and where the types of the windows agree and the type check has
\* passed, the result says whether for every i < len the dense element at
\* offsets[d_start + i] equals the sparse element at s_start + i.
C30_CrossModeSymmetric ==
    (is_cross_mode /\ out # <<>>)
    => /\ union_equal(op1.array, op2.array, op1.nulls, op2.nulls, op1.start, op2.start, arg)
          = union_equal(op2.array, op1.array, op2.nulls, op1.nulls, op2.start, op1.start, arg)
       /\ out.res \in union_equal(op2.array, op1.array, op2.nulls, op1.nulls, op2.start, op1.start, arg)
       /\ (window_types_equal(op1, op2, arg) /\ out.res = Returned(TRUE))
          => \A i \in 0..(arg - 1) : dense_element(dense_side, i) = sparse_element(sparse_side, i)
       /\ ( /\ window_types_equal(op1, op2, arg)
            /\ equal_types(op1.array.data_type.children, op2.array.data_type.children,
                           op1.array.buffers[1], op2.array.buffers[1]) = Returned(TRUE)
            /\ \A i \in 0..(arg - 1) : dense_element(dense_side, i) = sparse_element(sparse_side, i) )
          => out.res = Returned(TRUE)

\* a dense union compared with a sparse one over a window that starts past
\* the first slot, where an offset differs from the index of its slot
C30_Witness ==
    /\ is_cross_mode /\ out # <<>>
    /\ arg >= 1
    /\ dense_side.start >= 1
    /\ dense_side.array.buffers[2][dense_side.start + 1] # dense_side.start
    /\ out.res = Returned(TRUE)

\* both sides of the call are unions of the given mode
is_same_mode(umode) == mode = "union" /\ op1.array.data_type.umode = umode /\ op2.array.data_type.umode = umode

\* the element pair of slot i of two dense windows is equal: the same type
\* and the same value
dense_pair_equal(lhs, rhs, i) == slot_type(lhs, i) = slot_type(rhs, i) /\ dense_element(lhs, i) = dense_element(rhs, i)

\* the type check and the comparison of the parent nulls have passed
dense_checks_pass ==
    /\ equal_types(op1.array.data_type.children, op2.array.data_type.children, op1.array.buffers[1], op2.array.buffers[1]) = Returned(TRUE)
    /\ equal_nulls(op1.nulls, op2.nulls, op1.start, op2.start, arg) = Returned(TRUE)

\* C31: for two dense unions, union_equal returns false if for some
\* i < len the element at lhs_offsets[lhs_start + i] of the selected lhs
\* child differs from the element at rhs_offsets[rhs_start + i] of the
\* selected rhs child, and returns true if all these pairs are equal and
\* the type check and the parent null comparison have passed.
C31_DensePairs ==
    (is_same_mode("Dense") /\ out # <<>>)
    => /\ (\E i \in 0..(arg - 1) : ~dense_pair_equal(op1, op2, i)) => out.res = Returned(FALSE)
       /\ (dense_checks_pass /\ \A i \in 0..(arg - 1) : dense_pair_equal(op1, op2, i)) => out.res = Returned(TRUE)

\* the same, for the calls whose windows select the same types slot by slot
C31_DensePairsOfEqualTypes ==
    (is_same_mode("Dense") /\ window_types_equal(op1, op2, arg)) => C31_DensePairs

\* slot i of the window of a sparse side is valid in the parent and in the
\* selected child
sparse_valid(side, i) ==
    /\ is_valid_at(side.nulls, side.start + i)
    /\ is_valid_at(child_of(side.array, side.array.buffers[1][side.start + i + 1]).nulls, side.start + i)

\* slot i of two sparse windows is equal: null on both sides, or valid on
\* both with the same value
sparse_pair_equal(lhs, rhs, i) ==
    \/ ~sparse_valid(lhs, i) /\ ~sparse_valid(rhs, i)
    \/ sparse_valid(lhs, i) /\ sparse_valid(rhs, i) /\ sparse_element(lhs, i) = sparse_element(rhs, i)

C26_ScalarAsArray ==
    (/\ mode = "regexp" /\ out # <<>> /\ out.op = "regexp_match"
     /\ ~op1.is_scalar /\ op2.regex.is_scalar
     /\ op2.flags # NoDatum /\ op2.flags.is_scalar
     /\ op1.data_type = op2.regex.data_type /\ op2.regex.data_type = op2.flags.data_type)
    => out.res = regexp_match(op1,
                              Datum(Repeated(op2.regex.array[1], Len(op1.array)), FALSE, op2.regex.data_type),
                              Datum(Repeated(op2.flags.array[1], Len(op1.array)), FALSE, op2.flags.data_type))

\* The same for the rows that have a value and a flag the regex crate knows.
C26_ValidFlagOnValues ==
    (/\ mode = "regexp" /\ out # <<>> /\ out.op = "regexp_match"
     /\ ~op1.is_scalar /\ op2.regex.is_scalar
     /\ op2.flags # NoDatum /\ op2.flags.is_scalar
     /\ op1.data_type = op2.regex.data_type /\ op2.regex.data_type = op2.flags.data_type
     /\ \A k \in 1..Len(op2.flags.array[1].v) : op2.flags.array[1].v[k] \in RegexFlags)
    => out.res = regexp_match(op1,
                              Datum(Repeated(op2.regex.array[1], Len(op1.array)), FALSE, op2.regex.data_type),
                              Datum(Repeated(op2.flags.array[1], Len(op1.array)), FALSE, op2.flags.data_type))

(***************************************************************************)
(* Claims about the cursors of create_array and skip_field.                *)
(***************************************************************************)
\* C27: for every field type, nested ones included, every metadata version
\* and every starting (node_index, buffer_index), skip_field returns the
\* cursor pair that a successful create_array returns for the same field and
\* the same starting cursors.
C27_SkipMatchesCreate ==
    (mode = "walk" /\ out # <<>> /\ out.op = "skip_field")
    => LET triple == create_array(batch.nodes, schema[1], body, batch.buffers, dicts, arg, arg2, version)
       IN  triple.st = "Ok" => out.res = Cursors(triple.node_index, triple.buffer_index)

\* The same for the metadata version V5 alone.
C27_SkipMatchesCreateV5 ==
    (mode = "walk" /\ out # <<>> /\ out.op = "skip_field" /\ version = V5)
    => LET triple == create_array(batch.nodes, schema[1], body, batch.buffers, dicts, arg, arg2, version)
       IN  triple.st = "Ok" => out.res = Cursors(triple.node_index, triple.buffer_index)

\* C28: a successful create_array advances node_index by one for the field
\* and buffer_index by the count of its type (Null 0; Utf8, LargeUtf8, Binary
\* and LargeBinary 3; FixedSizeList, Struct and sparse Union 1; the other
\* types, dense Union included, 2), plus what each child consumes in
\* declaration order (none for Dictionary), plus one buffer per union when
\* the metadata version is earlier than V5.
C28_CursorAdvance ==
    (mode = "walk" /\ out # <<>> /\ out.op = "create_array" /\ out.res.st = "Ok")
    => /\ out.res.node_index = arg + RequiredNodes(schema[1])
       /\ out.res.buffer_index = arg2 + RequiredBuffers(schema[1], version)

\* create_array has walked a V4 struct that holds a dense union, from
\* cursors that are not zero.
C28_Witness ==
    /\ mode = "walk" /\ out # <<>> /\ out.op = "create_array" /\ out.res.st = "Ok"
    /\ version = V4
    /\ arg = 1 /\ arg2 = 2
    /\ schema[1].data_type = StructT(<<WalkField(UnionT(<<WalkField(Utf8T)>>, "Dense")), WalkField(Int64T)>>)
    /\ out.res.node_index = 1 + 4
    /\ out.res.buffer_index = 2 + 1 + 3 + 3 + 2

(***************************************************************************)
(* Claims about the iteration of the readers.                              *)
(***************************************************************************)
\* The messages a call of next() has read: those that end between the
\* position before the call and the position after it.
ReadBy(w, from, to) == Consumed(w, to) \ Consumed(w, from)

IsRecordBatch(item) == item.msg.header_type = "RecordBatch"

\* What C33 says of a call of next() on a stream apart from the count: a
\* batch is returned for a record batch message, the last message read,
\* after dictionary messages only; a dictionary that was read is in the
\* registry, and a call whose last message is such a dictionary has gone on
\* to the end of the source.
DictionariesAbsorbed(read) ==
    /\ result'.st = "Some"
       => /\ read # {}
          /\ IsRecordBatch(wire.items[Latest(read)])
          /\ \A k \in read \ {Latest(read)} : SuccessfullyRead(wire.items[k])
    /\ \A k \in read : SuccessfullyRead(wire.items[k]) => wire.items[k].msg.id \in DOMAIN dicts'
    /\ (read # {} /\ SuccessfullyRead(wire.items[Latest(read)]))
       => (pos' = Len(source) /\ result'.st = "None" /\ finished')

C35_NoneIsFinal ==
    [][ (mode = "file" /\ phase = "open" /\ h_op.op = "next" /\ result.st = "None" /\ calls' = calls + 1)
        => result'.st = "None" ]_vars

\* the same for a None returned after the last block
C35_NoneAfterLastBlock ==
    [][ ( /\ mode = "file" /\ phase = "open" /\ h_op.op = "next" /\ result.st = "None" /\ calls' = calls + 1
          /\ ~has_next_block(current_block, total_blocks) )
        => result'.st = "None" ]_vars


\* C36: in every state of a FileReader, whatever calls of next() and
\* set_index() were made and whether they failed, current_block lies in
\* 0..total_blocks and total_blocks is the number of record-batch blocks of
\* the footer; a call of next() reads a block only where the block list has
\* one, and every such call advances current_block by exactly one, also when
\* the block fails to decode; a call that reads no block leaves it alone.
C36_BlockCursor ==
    /\ []((mode = "file" /\ phase \in {"open", "panicked"} /\ h_op.op # "none")
          => /\ current_block \in 0..total_blocks
             /\ total_blocks = Len(wire.records)
             /\ Len(blocks) = total_blocks)
    /\ [][ (mode = "file" /\ phase = "open" /\ calls' = calls + 1)
           => IF has_next_block(current_block, total_blocks)
              THEN current_block + 1 <= Len(blocks) /\ current_block' = current_block + 1
              ELSE current_block' = current_block /\ result'.st = "None" ]_<<calls, current_block, result>>

\* A call of next() has failed on the first of two blocks after a call of
\* set_index, and has advanced current_block.
C36_Witness ==
    /\ mode = "file"
    /\ phase = "open"
    /\ total_blocks = 2
    /\ h_op.sets >= 1
    /\ h_op.op = "next"
    /\ result.st = "Err"
    /\ current_block = 1
    /\ calls >= 2


(***************************************************************************)
(* Claims about length prefixes.                                           *)
(***************************************************************************)
\* The reader stands where a message starts and the source ends after 1 to
\* 3 bytes of the length prefix: of its first four bytes, or, behind a
\* complete continuation marker, of the length.
EndsInsidePrefix(w, src, at) ==
    /\ at \in { ItemEnd(w, k) : k \in 1..Len(w.items) }
    /\ \A k \in 1..Len(src) : src[k] # IoFault
    /\ \/ Len(src) - at \in 1..3
       \/ w.marker /\ Len(src) - at \in 5..7

\* C37: when the source ends after 1 to 3 bytes of a length prefix, next()
\* returns an error: it does not return None and does not set finished.
C37_PartialPrefixIsError ==
    [][ ( /\ mode = "stream" /\ phase = "open" /\ ~finished
          /\ EndsInsidePrefix(wire, source, pos)
          /\ calls' = calls + 1 )
        => (result'.st = "Err" /\ ~finished') ]_vars

\* the same for a source that ends behind a complete continuation marker
C37_PartialLengthBehindMarker ==
    [][ ( /\ mode = "stream" /\ phase = "open" /\ ~finished
          /\ EndsInsidePrefix(wire, source, pos) /\ Len(source) - pos > 4
          /\ calls' = calls + 1 )
        => (result'.st = "Err" /\ ~finished') ]_vars


\* The length a reader takes from the prefix at `at`, behind a continuation
\* marker if there is one, is negative.
ReadsNegative(src, at) ==
    LET r1 == read_exact(src, at, 4)
        r2 == IF r1.ok /\ r1.data = CONTINUATION_MARKER THEN read_exact(src, r1.pos, 4) ELSE r1
    IN  r2.ok /\ i32_from_le_bytes(r2.data) < 0

FooterLength(src) == i32_from_le_bytes(SubSeq(src, Len(src) - 9, Len(src) - 6))

\* C38: a length that is negative as an i32 is reported as an error: by
\* try_new of a StreamReader for the schema message, by try_new of a
\* FileReader for the footer and for a dictionary block, and by next() of
\* either reader for the message it reads.
C38_NegativeLengthIsError ==
    [][ /\ (mode = "stream" /\ phase = "closed" /\ phase' # "closed" /\ ReadsNegative(source, 0))
           => phase' = "failed"
        /\ (mode = "stream" /\ phase = "open" /\ ~finished /\ calls' = calls + 1 /\ ReadsNegative(source, pos))
           => result'.st = "Err"
        /\ ( /\ mode = "file" /\ phase = "closed" /\ phase' # "closed"
             /\ \/ FooterLength(source) < 0
                \/ \E k \in 1..Len(wire.dictionaries) : ReadsNegative(source, BlockOf(wire.dictionaries \o wire.records, k, wire.marker)[1]) )
           => phase' = "failed"
        /\ ( /\ mode = "file" /\ phase = "open" /\ calls' = calls + 1
             /\ has_next_block(current_block, total_blocks)
             /\ ReadsNegative(source, block_at(blocks, current_block).offset) )
           => result'.st = "Err" ]_vars



(***************************************************************************)
(* create_primitive_array on the columns of a narrow type: the field node, *)
(* the declared type and the buffers of one call.                          *)
(***************************************************************************)
MaxNarrowLen == 2     \* rows of a narrow column, besides the column of 8 rows

NarrowLengths == 0..MaxNarrowLen \cup {8}

IntGroups ==
    { <<1, 0, 0, 0, 0, 0, 0, 0>>,                   \* 1
      <<255, 255, 255, 255, 255, 255, 255, 255>>,   \* -1
      <<128, 0, 0, 0, 0, 0, 0, 0>>,                 \* 128: outside Int8
      <<0, 1, 0, 0, 0, 0, 0, 0>>,                   \* 256: outside UInt8
      <<5, 0, 0, 0, 7, 0, 0, 0>> }                  \* outside UInt32 and Int32

FloatGroups ==
    { <<0, 0, 0, 0, 0, 0, 0, 0>>,                   \* 0.0
      <<0, 0, 0, 0, 0, 0, 240, 63>>,                \* 1.0
      <<0, 0, 0, 0, 0, 0, 248, 63>>,                \* 1.5
      <<0, 0, 0, 0, 0, 0, 0, 192>> }                \* -2.0

\* A values buffer of the given size whose 8-byte groups are a, b, a, ...
ValuesBuffer(a, b, size) ==
    [j \in 1..size |->
        (IF ((j - 1) \div 8) % 2 = 0 THEN a ELSE b)[((j - 1) % 8) + 1]]

\* The sizes of a values buffer of n rows of the width w: the rows at the
\* declared width, the rows as 64-bit elements, and 64-bit elements followed
\* by half an element.
ValuesSizes(n, w) == {n * w, n * 8, n * 8 + 4}

\* The validity buffer and the null count of the node: no nulls, or the
\* first row null.
Validities(n) ==
    {<<0, <<255, 255>>>>} \cup (IF n > 0 THEN {<<1, <<254, 255>>>>} ELSE {})

InitPrimitive ==
    /\ mode = "primitive"
    /\ phase = "idle"
    /\ \E kind \in NarrowIntKinds \cup {"Float32"}, n \in NarrowLengths :
       \E size \in ValuesSizes(n, byte_width(kind)), v \in Validities(n) :
       \E a, b \in (IF kind = "Float32" THEN FloatGroups ELSE IntGroups) :
          /\ op1 = [field_node |-> [length |-> n, null_count |-> v[1]],
                    data_type |-> DT(kind, "", <<>>)]
          /\ op2 = <<v[2], ValuesBuffer(a, b, size)>>
    /\ arg = 0
    /\ arg2 = 0
    /\ out = <<>>
    /\ schema = <<>>
    /\ dicts = <<>>
    /\ NoBatchCall
    /\ NoReader
    /\ NoFile

\* create_primitive_array(field_node, data_type, buffers)
CreatePrimitive ==
    /\ mode = "primitive" /\ phase = "idle"
    /\ out' = Call("create_primitive_array",
                   Returned(create_primitive_array(op1.field_node, op1.data_type, op2)))
    /\ phase' = "done"
    /\ UNCHANGED <<mode, batch_vars, stream_vars, file_vars, op1, op2, arg, arg2>>

NextPrimitive == CreatePrimitive

SpecPrimitive == InitPrimitive /\ [][NextPrimitive]_vars

(***************************************************************************)
(* Claims about the columns of a narrow type.                              *)
(***************************************************************************)
\* The values of an array read at a width: the bytes of each valid row, and
\* the empty sequence for a null row.
values_of(array, width) ==
    [k \in 1..array.len |->
        IF is_valid(array.nulls, k - 1)
        THEN element(array.buffers[1], width, k - 1) ELSE <<>>]

\* A narrow value widened to 64 bits.
sign_extend(bytes, kind) ==
    bytes \o [j \in 1..(8 - Len(bytes)) |->
                IF kind \notin UnsignedKinds /\ bytes[Len(bytes)] >= 128
                THEN 255 ELSE 0]

\* The array holds the 64-bit elements of the values buffer as values of the
\* declared type: a row is the narrow value that widens to its element, and
\* is null where the node's row is null or no narrow value does.
read_as_64(array, field_node, data_type, bufs) ==
    LET w == byte_width(data_type.kind)
        nulls == null_bit_buffer(field_node.null_count, bufs[1])
    IN  /\ array.data_type = data_type
        /\ array.len = field_node.length
        /\ \A k \in 1..field_node.length :
              LET group == element(bufs[2], 8, k - 1)
                  v == values_of(array, w)[k]
              IN  IF ~is_valid(nulls, k - 1) THEN v = <<>>
                  ELSE IF data_type.kind = "Float32" THEN v = f64_to_f32(group)
                  ELSE IF v = <<>>
                       THEN sign_extend(SubSeq(group, 1, w), data_type.kind) # group
                       ELSE sign_extend(v, data_type.kind) = group

\* The values of the buffer at the declared width.
declared_values(field_node, data_type, bufs) ==
    [k \in 1..field_node.length |->
        IF is_valid(null_bit_buffer(field_node.null_count, bufs[1]), k - 1)
        THEN element(bufs[2], byte_width(data_type.kind), k - 1) ELSE <<>>]

\* The array is the values buffer itself at the declared type.
read_at_declared_width(array, field_node, data_type, bufs) ==
    /\ array.data_type = data_type
    /\ array.len = field_node.length
    /\ array.buffers = <<bufs[2]>>
    /\ values_of(array, byte_width(data_type.kind))
         = declared_values(field_node, data_type, bufs)

\* C39: for a column of a narrow type, create_primitive_array reads the
\* values buffer as 64-bit elements and casts them to the declared type
\* exactly when floor(values_buffer_len / 8) = length and length # 1, and
\* reads it at the declared width otherwise; an Int32 column of 8 rows in a
\* buffer of 64 bytes is read as 64-bit, a column of one row in 8 bytes at
\* the declared width, and a buffer of exactly length times the declared
\* width bytes yields the values it holds at the declared width.
C39_NarrowColumns ==
    (mode = "primitive" /\ phase = "done") =>
        LET node == op1.field_node
            type == op1.data_type
            n == node.length
            size == Len(op2[2])
            array == out.res.value
        IN  /\ out.res.st = "Ok"
            /\ (size \div 8 = n /\ n # 1) => read_as_64(array, node, type, op2)
            /\ ~(size \div 8 = n /\ n # 1)
                  => read_at_declared_width(array, node, type, op2)
            /\ (type.kind = "Int32" /\ n = 8 /\ size = 64)
                  => read_as_64(array, node, type, op2)
            /\ (n = 1 /\ size = 8)
                  => read_at_declared_width(array, node, type, op2)
            /\ size = n * byte_width(type.kind)
                  => values_of(array, byte_width(type.kind))
                       = declared_values(node, type, op2)

\* An Int32 column of 8 rows in a buffer of 64 bytes has been read: the
\* array holds 32 bytes, and a row that the declared width would read
\* differently.
C39_Witness ==
    /\ mode = "primitive" /\ phase = "done"
    /\ op1.data_type.kind = "Int32"
    /\ op1.field_node.length = 8
    /\ Len(op2[2]) = 64
    /\ Len(out.res.value.buffers[1]) = 32
    /\ values_of(out.res.value, 4) # declared_values(op1.field_node, op1.data_type, op2)


(***************************************************************************)
(* Claims about slices of a Bitmap and their bits.                         *)
(***************************************************************************)
\* C40: for every bitmap bm, every a <= bm.bit_len() and every
\* i < bm.bit_len() - a, bm.slice(a).is_set(i) is bm.is_set(a + i), and
\* bm.slice_with_length(a, l).is_set(i) is bm.is_set(a + i) for i < l.
C40_SliceAgreesWithIsSet ==
    (mode = "slice" /\ phase = "done")
    => out.res.sliced = out.res.direct

=============================================================================
